---- MODULE Spec2Model ----
(***************************************************************************)
(* The parachain-candidate inclusion module                                *)
(* (runtime/parachains/src/inclusion.rs): storage, the five entry points   *)
(* process_bitfields, process_candidates, collect_pending, force_enact and *)
(* initializer_on_new_session, and enact_candidate.                        *)
(*                                                                         *)
(* Bit vectors are sequences of BOOLEAN; the bit with 0-based index i is   *)
(* element i + 1.  Option<T> is a sequence of length 0 (None) or 1 (Some). *)
(* Hashes are modelled injectively: the hash of a value is the value.      *)
(***************************************************************************)
EXTENDS Integers, Sequences, FiniteSets, TLC

\* ------------------------------------------------------------------ bounds
MaxBlock == 2
MaxBatch == 2
MaxSession == 1
MaxCalls == 4

\* ------------------------------------------------------------- option type
None == <<>>
Some(x) == <<x>>
IsSome(o) == Len(o) = 1
IsNone(o) == Len(o) = 0
Unwrap(o) == o[1]

\* ---------------------------------------------------- environment (mock)
\* Registered paras: 1 is a parachain, 2 a parathread; 3 is not registered.
ParaIds == {1, 2, 3}
RegisteredParas == {1, 2}
parachains == <<1>>
config ==
    [parathread_cores |-> 1,
     validation_upgrade_frequency |-> 1,
     validation_upgrade_delay |-> 1]
n_bits == Len(parachains) + config.parathread_cores
Cores == 0 .. (n_bits - 1)
GenesisHead == 0
DebugAssertions == TRUE

\* --------------------------------------------------------------- variables
VARIABLES
    AvailabilityBitfields,          \* ValidatorIndex -> Option<record>
    PendingAvailability,            \* ParaId -> Option<CandidatePendingAvailability>
    PendingAvailabilityCommitments, \* ParaId -> Option<CandidateCommitments>
    Validators,                     \* Vec<ValidatorId>
    CurrentSessionIndex,
    now,                            \* frame_system block_number
    parent_hash,                    \* frame_system parent_hash
    Heads,                          \* paras: ParaId -> Option<(head, relay number)>
    CodeUpgrades,                   \* paras: ParaId -> Option<effective block>
    events,                         \* events deposited by the call in `call`
    n_calls,                        \* the number of calls made so far
    phase,                          \* "idle" | "returned"
    call,                           \* the call that just returned, its arguments and result
    pre                             \* storage as it was when that call started

storage ==
    <<AvailabilityBitfields, PendingAvailability, PendingAvailabilityCommitments,
      Validators, CurrentSessionIndex>>
paras_state == <<Heads, CodeUpgrades>>
vars ==
    <<AvailabilityBitfields, PendingAvailability, PendingAvailabilityCommitments,
      Validators, CurrentSessionIndex, now, parent_hash, Heads, CodeUpgrades,
      events, n_calls, phase, call, pre>>

Snapshot ==
    [AvailabilityBitfields |-> AvailabilityBitfields,
     PendingAvailability |-> PendingAvailability,
     PendingAvailabilityCommitments |-> PendingAvailabilityCommitments,
     Validators |-> Validators,
     CurrentSessionIndex |-> CurrentSessionIndex,
     Heads |-> Heads,
     CodeUpgrades |-> CodeUpgrades]

\* The part of the state a call may write, threaded through its steps.
Store ==
    [AB |-> AvailabilityBitfields,
     PA |-> PendingAvailability,
     PAC |-> PendingAvailabilityCommitments,
     Heads |-> Heads,
     CodeUpgrades |-> CodeUpgrades,
     events |-> <<>>]

\* ----------------------------------------------------------- bit vectors
Zeros(n) == [i \in 1 .. n |-> FALSE]
count_ones(bv) == Cardinality({i \in DOMAIN bv : bv[i]})
BitAnd(a, b) == [i \in 1 .. Len(a) |-> a[i] /\ b[i]]

\* ------------------------------------------------------ threshold arithmetic
\* Variant of availability_threshold: the third that may be missing.
availability_threshold_of_third(n_validators) == (n_validators * 1) \div 3
\* Variant of availability_threshold: two thirds of the validators, rounded down.
availability_threshold_rounded_down(n_validators) == (2 * n_validators) \div 3
availability_threshold(n_validators) == n_validators - ((n_validators * 1) \div 3)

\* ------------------------------------------------------------- signatures
SigningContext == [parent_hash |-> parent_hash, session_index |-> CurrentSessionIndex]

\* A signature names its signer and what was signed; verification compares both.
Sign(key, payload, ctx) == [signer |-> key, payload |-> payload, context |-> ctx]
Verify(sig, key, payload, ctx) ==
    /\ sig.signer = key
    /\ sig.payload = payload
    /\ sig.context = ctx

\* Variant of check_signature: the session index of the signing context is not compared.
check_signature_any_session(signed_bitfield, ctx, validator_public) ==
    /\ signed_bitfield.signature.signer = validator_public
    /\ signed_bitfield.signature.payload = signed_bitfield.payload
    /\ signed_bitfield.signature.context.parent_hash = ctx.parent_hash
check_signature(signed_bitfield, ctx, validator_public) ==
    Verify(signed_bitfield.signature, validator_public, signed_bitfield.payload, ctx)

collator_signature_payload(d) ==
    <<d.relay_parent, d.para_id, d.persisted_validation_data_hash, d.pov_hash>>
NoContext == [parent_hash |-> -1, session_index |-> -1]
check_collator_signature(d) ==
    Verify(d.signature, d.collator, collator_signature_payload(d), NoContext)

\* ------------------------------------------------------------------ paras
last_code_upgrade(para_id) == CodeUpgrades[para_id]
make_persisted_validation_data(para_id) ==
    IF IsNone(Heads[para_id]) THEN None
    ELSE Some([parent_head |-> Unwrap(Heads[para_id]).head, block_number |-> now - 1])
schedule_code_upgrade(s, para_id, expected_at) ==
    [s EXCEPT !.CodeUpgrades[para_id] = Some(expected_at)]
note_new_head(s, para_id, head_data, relay_parent_number) ==
    [s EXCEPT !.Heads[para_id] = Some([head |-> head_data, at |-> relay_parent_number])]

\* ------------------------------------------------------------------ events
Event(kind, descriptor, commitments_hash, head_data) ==
    [kind |-> kind, descriptor |-> descriptor,
     commitments_hash |-> commitments_hash, head_data |-> head_data]
deposit_event(s, e) == [s EXCEPT !.events = Append(@, e)]

\* ----------------------------------------------------------- enact_candidate
\* Variant of enact_candidate: the code upgrade is scheduled at the relay parent's
\* number, without the delay.
enact_candidate_without_delay(s, relay_parent_number, descriptor, commitments) ==
    LET s1 == IF IsSome(commitments.new_validation_code)
              THEN schedule_code_upgrade(s, descriptor.para_id, relay_parent_number)
              ELSE s
        s2 == deposit_event(s1,
                  Event("CandidateIncluded", descriptor, commitments, commitments.head_data))
    IN note_new_head(s2, descriptor.para_id, commitments.head_data, relay_parent_number)
enact_candidate(s, relay_parent_number, descriptor, commitments) ==
    LET s1 == IF IsSome(commitments.new_validation_code)
              THEN schedule_code_upgrade(s, descriptor.para_id,
                       relay_parent_number + config.validation_upgrade_delay)
              ELSE s
        s2 == deposit_event(s1,
                  Event("CandidateIncluded", descriptor, commitments, commitments.head_data))
    IN note_new_head(s2, descriptor.para_id, commitments.head_data, relay_parent_number)

\* ------------------------------------------------------------ process_bitfields
Result(kind, value) == [kind |-> kind, value |-> value]
Ok(value) == Result("Ok", value)
Err(e) == Result(e, <<>>)

\* (para, pending record) for the para the lookup gives for each core (bit).
assigned_paras_record(core_lookup) ==
    [b \in 1 .. n_bits |->
        IF IsNone(core_lookup[b - 1]) THEN None
        ELSE Some([id |-> Unwrap(core_lookup[b - 1]),
                   pending |-> PendingAvailability[Unwrap(core_lookup[b - 1])]])]

\* Variant of occupied_bitmask: a core counts as occupied when the lookup names a para.
occupied_bitmask_assigned(records) == [b \in 1 .. n_bits |-> IsSome(records[b])]
occupied_bitmask(records) ==
    [b \in 1 .. n_bits |-> IsSome(records[b]) /\ IsSome(Unwrap(records[b]).pending)]

\* Variants of bitfield_checks, each lax about one check: a payload may be longer than
\* n_bits ("size"), a validator index may repeat ("order"), or a validator index may be
\* out of bounds, in which case there is no key to check the signature against
\* ("bounds").
RECURSIVE bitfield_checks_lax(_, _, _, _, _)
bitfield_checks_lax(signed_bitfields, i, last_index, mask, lax) ==
    IF i > Len(signed_bitfields) THEN "Ok"
    ELSE LET sb == signed_bitfields[i] IN
        IF Len(sb.payload) < n_bits \/ (lax # "size" /\ Len(sb.payload) # n_bits)
            THEN "WrongBitfieldSize"
        ELSE IF ~(\/ IsNone(last_index)
                  \/ Unwrap(last_index) < sb.validator_index
                  \/ (lax = "order" /\ Unwrap(last_index) = sb.validator_index))
            THEN "BitfieldDuplicateOrUnordered"
        ELSE IF lax # "bounds" /\ ~(sb.validator_index < Len(Validators))
            THEN "ValidatorIndexOutOfBounds"
        ELSE IF BitAnd(mask, sb.payload) # sb.payload
            THEN "UnoccupiedBitInBitfield"
        ELSE IF /\ sb.validator_index < Len(Validators)
                /\ ~check_signature(sb, SigningContext, Validators[sb.validator_index + 1])
            THEN "InvalidBitfieldSignature"
        ELSE bitfield_checks_lax(signed_bitfields, i + 1, Some(sb.validator_index), mask, lax)
bitfield_checks_any_size(signed_bitfields, i, last_index, mask) ==
    bitfield_checks_lax(signed_bitfields, i, last_index, mask, "size")
bitfield_checks_repeating(signed_bitfields, i, last_index, mask) ==
    bitfield_checks_lax(signed_bitfields, i, last_index, mask, "order")
bitfield_checks_unbounded(signed_bitfields, i, last_index, mask) ==
    bitfield_checks_lax(signed_bitfields, i, last_index, mask, "bounds")
\* The sanity checks on bitfield i and the ones after it; "Ok" or the first error.
RECURSIVE bitfield_checks(_, _, _, _)
bitfield_checks(signed_bitfields, i, last_index, mask) ==
    IF i > Len(signed_bitfields) THEN "Ok"
    ELSE LET sb == signed_bitfields[i] IN
        IF Len(sb.payload) # n_bits
            THEN "WrongBitfieldSize"
        ELSE IF ~(IsNone(last_index) \/ Unwrap(last_index) < sb.validator_index)
            THEN "BitfieldDuplicateOrUnordered"
        ELSE IF ~(sb.validator_index < Len(Validators))
            THEN "ValidatorIndexOutOfBounds"
        ELSE IF BitAnd(mask, sb.payload) # sb.payload
            THEN "UnoccupiedBitInBitfield"
        ELSE IF ~check_signature(sb, SigningContext, Validators[sb.validator_index + 1])
            THEN "InvalidBitfieldSignature"
        ELSE bitfield_checks(signed_bitfields, i + 1, Some(sb.validator_index), mask)

\* Whether the vote of validator val_idx can be set in the record of bit b.
vote_bit_exists(records, b, val_idx) ==
    /\ IsSome(records[b])
    /\ IsSome(Unwrap(records[b]).pending)
    /\ val_idx < Len(Unwrap(Unwrap(records[b]).pending).availability_votes)

\* Variant of set_votes: only the vote for the lowest set bit of the payload is set.
set_votes_lowest_bit(records, payload, val_idx) ==
    [b \in 1 .. n_bits |->
        IF /\ payload[b]
           /\ \A c \in 1 .. (b - 1) : ~payload[c]
           /\ vote_bit_exists(records, b, val_idx)
        THEN Some([id |-> Unwrap(records[b]).id,
                   pending |-> Some([Unwrap(Unwrap(records[b]).pending) EXCEPT
                                       !.availability_votes[val_idx + 1] = TRUE])])
        ELSE records[b]]
\* Variant of set_votes: the vote is flipped, not set.
set_votes_flipping(records, payload, val_idx) ==
    [b \in 1 .. n_bits |->
        IF payload[b] /\ vote_bit_exists(records, b, val_idx)
        THEN Some([id |-> Unwrap(records[b]).id,
                   pending |-> Some([Unwrap(Unwrap(records[b]).pending) EXCEPT
                                       !.availability_votes[val_idx + 1] = ~@])])
        ELSE records[b]]
\* Variant of set_votes: a record that gets a vote is stamped with the current block.
set_votes_restamping(records, payload, val_idx) ==
    [b \in 1 .. n_bits |->
        IF payload[b] /\ vote_bit_exists(records, b, val_idx)
        THEN Some([id |-> Unwrap(records[b]).id,
                   pending |-> Some([Unwrap(Unwrap(records[b]).pending) EXCEPT
                                       !.availability_votes[val_idx + 1] = TRUE,
                                       !.backed_in_number = now])])
        ELSE records[b]]
\* The local records with validator val_idx's vote set for every set bit of payload.
set_votes(records, payload, val_idx) ==
    [b \in 1 .. n_bits |->
        IF payload[b] /\ vote_bit_exists(records, b, val_idx)
        THEN Some([id |-> Unwrap(records[b]).id,
                   pending |-> Some([Unwrap(Unwrap(records[b]).pending) EXCEPT
                                       !.availability_votes[val_idx + 1] = TRUE])])
        ELSE records[b]]

\* Folds bitfield i and the ones after it: [records, AB, err].
RECURSIVE fold_bitfields(_, _, _, _)
fold_bitfields(signed_bitfields, i, records, ab) ==
    IF i > Len(signed_bitfields) THEN [records |-> records, AB |-> ab, err |-> FALSE]
    ELSE LET sb == signed_bitfields[i]
             defensive == \E b \in 1 .. n_bits :
                              sb.payload[b] /\ ~vote_bit_exists(records, b, sb.validator_index)
         IN IF defensive /\ DebugAssertions
            THEN [records |-> records, AB |-> ab, err |-> TRUE]
            ELSE fold_bitfields(signed_bitfields, i + 1,
                     set_votes(records, sb.payload, sb.validator_index),
                     [ab EXCEPT ![sb.validator_index] =
                         Some([bitfield |-> sb.payload, submitted_at |-> now])])

\* Variant of is_available: the threshold itself is not enough.
is_available_strict(pending_availability, threshold) ==
    count_ones(pending_availability.availability_votes) > threshold
\* Whether a pending record has reached the availability threshold.
is_available(pending_availability, threshold) ==
    count_ones(pending_availability.availability_votes) >= threshold

RECURSIVE enact_available_freeing(_, _, _, _, _)
RECURSIVE enact_available(_, _, _, _, _)
\* Variant of enact_available: the core of a record without commitments is freed.
enact_available_freeing(records, b, threshold, s, freed) ==
    IF b > n_bits THEN [s |-> s, freed |-> freed]
    ELSE IF IsNone(records[b]) \/ IsNone(Unwrap(records[b]).pending)
        THEN enact_available_freeing(records, b + 1, threshold, s, freed)
    ELSE LET para_id == Unwrap(records[b]).id
             pending_availability == Unwrap(Unwrap(records[b]).pending)
         IN IF is_available(pending_availability, threshold)
            THEN LET removed == [s EXCEPT !.PA[para_id] = None, !.PAC[para_id] = None]
                 IN IF IsNone(s.PAC[para_id])
                    THEN enact_available_freeing(records, b + 1, threshold, removed,
                             Append(freed, pending_availability.core))
                    ELSE enact_available_freeing(records, b + 1, threshold,
                             enact_candidate(removed, pending_availability.relay_parent_number,
                                 pending_availability.descriptor, Unwrap(s.PAC[para_id])),
                             Append(freed, pending_availability.core))
            ELSE enact_available_freeing(records, b + 1, threshold,
                     [s EXCEPT !.PA[para_id] = Some(pending_availability)], freed)
\* The last loop of process_bitfields, from bit b on: s is the store, freed the cores so far.
enact_available(records, b, threshold, s, freed) ==
    IF b > n_bits THEN [s |-> s, freed |-> freed]
    ELSE IF IsNone(records[b]) \/ IsNone(Unwrap(records[b]).pending)
        THEN enact_available(records, b + 1, threshold, s, freed)
    ELSE LET para_id == Unwrap(records[b]).id
             pending_availability == Unwrap(Unwrap(records[b]).pending)
         IN IF is_available(pending_availability, threshold)
            THEN LET removed == [s EXCEPT !.PA[para_id] = None, !.PAC[para_id] = None]
                 IN IF IsNone(s.PAC[para_id])
                    THEN enact_available(records, b + 1, threshold, removed, freed)
                    ELSE enact_available(records, b + 1, threshold,
                             enact_candidate(removed, pending_availability.relay_parent_number,
                                 pending_availability.descriptor, Unwrap(s.PAC[para_id])),
                             Append(freed, pending_availability.core))
            ELSE enact_available(records, b + 1, threshold,
                     [s EXCEPT !.PA[para_id] = Some(pending_availability)], freed)

\* Variant of finish_bitfields: every core is returned as freed.
finish_bitfields_every_core(done) == [res |-> Ok([b \in 1 .. n_bits |-> b - 1]), s |-> done.s]
finish_bitfields(done) == [res |-> Ok(done.freed), s |-> done.s]
\* The call once the votes are folded: enact what has become available.
enact_folded(folded, s0) ==
    IF folded.err THEN [res |-> Err("InternalError"), s |-> s0]
    ELSE finish_bitfields(enact_available(folded.records, 1,
             availability_threshold(Len(Validators)), s0, <<>>))
fold_and_enact(folded) == enact_folded(folded, [Store EXCEPT !.AB = folded.AB])
\* Variant of checked_bitfields: the record of the first bitfield is stored before the
\* checks are consulted.
checked_bitfields_late(signed_bitfields, records, check) ==
    IF check # "Ok"
    THEN [res |-> Err(check),
          s |-> [Store EXCEPT !.AB[signed_bitfields[1].validator_index] =
                     Some([bitfield |-> signed_bitfields[1].payload, submitted_at |-> now])]]
    ELSE fold_and_enact(fold_bitfields(signed_bitfields, 1, records, AvailabilityBitfields))
\* The call once the checks are made: fold the votes unless a check failed.
checked_bitfields(signed_bitfields, records, check) ==
    IF check # "Ok" THEN [res |-> Err(check), s |-> Store]
    ELSE fold_and_enact(fold_bitfields(signed_bitfields, 1, records, AvailabilityBitfields))
check_and_fold(signed_bitfields, records) ==
    checked_bitfields(signed_bitfields, records,
        bitfield_checks(signed_bitfields, 1, None, occupied_bitmask(records)))

\* The whole call: [res, s].
process_bitfields(signed_bitfields, core_lookup) ==
    check_and_fold(signed_bitfields, assigned_paras_record(core_lookup))

\* ----------------------------------------------------------- process_candidates
candidate_hash(candidate) == <<candidate.descriptor, candidate.commitments>>

\* The number of valid backing votes (Some), or None when the backing is malformed
\* or holds a vote that does not verify.  validator_lookup[i] is the key of the
\* (i-1)-th member of the group, or None.
set_indices(bv) == {i \in DOMAIN bv : bv[i]}
RECURSIVE nth_set_index(_, _)
nth_set_index(bv, k) ==
    LET m == CHOOSE i \in set_indices(bv) : \A j \in set_indices(bv) : i <= j
    IN IF k = 1 THEN m ELSE nth_set_index([bv EXCEPT ![m] = FALSE], k - 1)
check_candidate_backing(backed, ctx, group_len, validator_lookup) ==
    IF Len(backed.validator_indices) # group_len \/ Len(backed.validity_votes) > group_len
    THEN None
    ELSE LET n_set == Cardinality(set_indices(backed.validator_indices))
             n_pairs == IF n_set < Len(backed.validity_votes)
                        THEN n_set ELSE Len(backed.validity_votes)
             pair_ok(k) ==
                 LET idx == nth_set_index(backed.validator_indices, k)
                 IN /\ IsSome(validator_lookup[idx])
                    /\ Verify(backed.validity_votes[k], Unwrap(validator_lookup[idx]),
                              candidate_hash(backed), ctx)
         IN IF \E k \in 1 .. n_pairs : ~pair_ok(k) THEN None
            ELSE IF n_pairs # Len(backed.validity_votes) THEN None
            ELSE Some(n_pairs)

\* The key of each member of a group: the validator at its index, if there is one.
group_keys(group_vals) ==
    [i \in 1 .. Len(group_vals) |->
        IF group_vals[i] < Len(Validators) THEN Some(Validators[group_vals[i] + 1]) ELSE None]

\* Variant of is_backed: the availability threshold is asked of the backing votes.
is_backed_by_threshold(amount_validated, group_len) ==
    amount_validated >= availability_threshold(group_len)
\* Whether amount_validated backing votes are a majority of the group.
is_backed(amount_validated, group_len) == amount_validated * 2 > group_len

\* Variant of valid_upgrade_attempt: the last upgrade is not looked at.
valid_upgrade_attempt_unchecked(candidate, relay_parent_number) == TRUE
\* Variant of valid_upgrade_attempt: an upgrade that is not in the future is enough.
valid_upgrade_attempt_once_due(candidate, relay_parent_number) ==
    \/ IsNone(candidate.commitments.new_validation_code)
    \/ LET last == last_code_upgrade(candidate.descriptor.para_id)
       IN IsNone(last) \/ Unwrap(last) <= relay_parent_number
valid_upgrade_attempt(candidate, relay_parent_number) ==
    \/ IsNone(candidate.commitments.new_validation_code)
    \/ LET last == last_code_upgrade(candidate.descriptor.para_id)
       IN \/ IsNone(last)
          \/ /\ Unwrap(last) <= relay_parent_number
             /\ relay_parent_number - Unwrap(last) >= config.validation_upgrade_frequency

\* Variant of check_assignment_in_order: a core may repeat.
check_assignment_not_descending(assignment, last_core) ==
    IsNone(last_core) \/ assignment.core >= Unwrap(last_core)
check_assignment_in_order(assignment, last_core) ==
    IsNone(last_core) \/ assignment.core > Unwrap(last_core)

\* Variant of para_is_free: only the pending candidate is looked at.
para_is_free_of_candidate(para_id) == IsNone(PendingAvailability[para_id])
\* Whether a para has neither a pending candidate nor pending commitments.
para_is_free(para_id) ==
    IsNone(PendingAvailability[para_id]) /\ IsNone(PendingAvailabilityCommitments[para_id])

\* Variant of backing_result: a backing that does not verify counts as no votes.
backing_result_lenient(maybe_amount_validated, group_len) ==
    IF IsNone(maybe_amount_validated) THEN "InsufficientBacking"
    ELSE IF ~is_backed(Unwrap(maybe_amount_validated), group_len) THEN "InsufficientBacking"
    ELSE "Ok"
\* What the backing check makes of the number of valid votes.
backing_result(maybe_amount_validated, group_len) ==
    IF IsNone(maybe_amount_validated) THEN "InvalidBacking"
    ELSE IF ~is_backed(Unwrap(maybe_amount_validated), group_len) THEN "InsufficientBacking"
    ELSE "Ok"

\* The checks on an assignment whose para is the candidate's: "Ok", "Early" or the error.
check_matched(candidate, assignment, group_validators) ==
    LET para_id == candidate.descriptor.para_id
        pvd == make_persisted_validation_data(para_id)
        group_vals == group_validators[assignment.group_idx]
    IN IF IsSome(assignment.required_collator)
          /\ Unwrap(assignment.required_collator) # candidate.descriptor.collator
           THEN "WrongCollator"
       ELSE IF IsNone(pvd)
           THEN "Early"
       ELSE IF Unwrap(pvd) # candidate.descriptor.persisted_validation_data_hash
           THEN "ValidationDataHashMismatch"
       ELSE IF ~para_is_free(para_id)
           THEN "CandidateScheduledBeforeParaFree"
       ELSE IF IsNone(group_vals)
           THEN "InvalidGroupIndex"
       ELSE backing_result(
                check_candidate_backing(candidate, SigningContext,
                    Len(Unwrap(group_vals)), group_keys(Unwrap(group_vals))),
                Len(Unwrap(group_vals)))

\* The inner loop: scheduled[j ..] is scanned for the candidate's para.
\* [kind, skip, last_core, core]; kind is "Ok" (matched), "Early" or the error.
RECURSIVE scan_scheduled(_, _, _, _, _)
scan_scheduled(candidate, scheduled, group_validators, j, last_core) ==
    IF j > Len(scheduled)
    THEN [kind |-> "UnscheduledCandidate", skip |-> j - 1, last_core |-> last_core, core |-> 0]
    ELSE LET assignment == scheduled[j] IN
        IF ~check_assignment_in_order(assignment, last_core)
        THEN [kind |-> "ScheduledOutOfOrder", skip |-> j - 1,
              last_core |-> last_core, core |-> 0]
        ELSE IF candidate.descriptor.para_id = assignment.para_id
        THEN [kind |-> check_matched(candidate, assignment, group_validators),
              skip |-> j, last_core |-> Some(assignment.core), core |-> assignment.core]
        ELSE scan_scheduled(candidate, scheduled, group_validators, j + 1,
                 Some(assignment.core))

\* Variant of check_candidate: the collator's signature is not verified.
check_candidate_unsigned(candidate, relay_parent_number) ==
    IF candidate.descriptor.relay_parent # parent_hash
        THEN "CandidateNotInParentContext"
    ELSE IF ~valid_upgrade_attempt(candidate, relay_parent_number)
        THEN "PrematureCodeUpgrade"
    ELSE "Ok"
\* Variant of check_candidate: the relay parent is not compared with the parent hash.
check_candidate_any_parent(candidate, relay_parent_number) ==
    IF ~valid_upgrade_attempt(candidate, relay_parent_number)
        THEN "PrematureCodeUpgrade"
    ELSE IF ~check_collator_signature(candidate.descriptor)
        THEN "NotCollatorSigned"
    ELSE "Ok"
\* The checks on a candidate that do not depend on its assignment.
check_candidate(candidate, relay_parent_number) ==
    IF candidate.descriptor.relay_parent # parent_hash
        THEN "CandidateNotInParentContext"
    ELSE IF ~valid_upgrade_attempt(candidate, relay_parent_number)
        THEN "PrematureCodeUpgrade"
    ELSE IF ~check_collator_signature(candidate.descriptor)
        THEN "NotCollatorSigned"
    ELSE "Ok"

\* The outer loop, from candidate c on: [kind, skip, last_core, core_indices].
RECURSIVE match_candidates(_, _, _, _, _, _, _)
\* Variant of matched: the cursor stays where it was after a match.
matched_without_cursor(candidates, scheduled, group_validators, c, skip, last_core, core_indices, found) ==
    IF found.kind # "Ok"
    THEN [kind |-> found.kind, skip |-> skip, last_core |-> last_core,
          core_indices |-> core_indices]
    ELSE match_candidates(candidates, scheduled, group_validators, c + 1,
             skip, last_core, Append(core_indices, found.core))
\* Variant of matched: the matched core is put in front of the list.
matched_in_front(candidates, scheduled, group_validators, c, skip, last_core, core_indices, found) ==
    IF found.kind # "Ok"
    THEN [kind |-> found.kind, skip |-> skip, last_core |-> last_core,
          core_indices |-> core_indices]
    ELSE match_candidates(candidates, scheduled, group_validators, c + 1,
             found.skip, found.last_core, <<found.core>> \o core_indices)
matched(candidates, scheduled, group_validators, c, skip, last_core, core_indices, found) ==
    IF found.kind # "Ok"
    THEN [kind |-> found.kind, skip |-> skip, last_core |-> last_core,
          core_indices |-> core_indices]
    ELSE match_candidates(candidates, scheduled, group_validators, c + 1,
             found.skip, found.last_core, Append(core_indices, found.core))
match_candidates(candidates, scheduled, group_validators, c, skip, last_core, core_indices) ==
    IF c > Len(candidates)
    THEN [kind |-> "Ok", skip |-> skip, last_core |-> last_core,
          core_indices |-> core_indices]
    ELSE IF check_candidate(candidates[c], now - 1) # "Ok"
    THEN [kind |-> check_candidate(candidates[c], now - 1), skip |-> skip,
          last_core |-> last_core, core_indices |-> core_indices]
    ELSE matched(candidates, scheduled, group_validators, c, skip, last_core, core_indices,
             scan_scheduled(candidates[c], scheduled, group_validators, skip + 1, last_core))

\* Variant of check_remainder: the assignments after the last matched one are not looked at.
check_remainder_skipped(scheduled, j, last_core) == TRUE
\* The check of the assignments after the last matched one.
RECURSIVE check_remainder(_, _, _)
check_remainder(scheduled, j, last_core) ==
    IF j > Len(scheduled) THEN TRUE
    ELSE /\ check_assignment_in_order(scheduled[j], last_core)
         /\ check_remainder(scheduled, j + 1, Some(scheduled[j].core))

\* Variant of new_pending: the votes start from the bitfields on record for the core.
new_pending_with_recorded_votes(candidate, core) ==
    [core |-> core,
     descriptor |-> candidate.descriptor,
     availability_votes |->
         [v \in 1 .. Len(Validators) |->
             /\ IsSome(AvailabilityBitfields[v - 1])
             /\ Unwrap(AvailabilityBitfields[v - 1]).bitfield[core + 1]],
     relay_parent_number |-> now - 1,
     backed_in_number |-> now]
\* Variant of new_pending: the block of backing is taken for the relay parent's.
new_pending_same_number(candidate, core) ==
    [core |-> core,
     descriptor |-> candidate.descriptor,
     availability_votes |-> Zeros(Len(Validators)),
     relay_parent_number |-> now,
     backed_in_number |-> now]
\* The record written for an admitted candidate.
new_pending(candidate, core) ==
    [core |-> core,
     descriptor |-> candidate.descriptor,
     availability_votes |-> Zeros(Len(Validators)),
     relay_parent_number |-> now - 1,
     backed_in_number |-> now]

\* Variant of write_candidate: the commitments are not stored.
write_candidate_without_commitments(candidate, core, s) ==
    [deposit_event(s, Event("CandidateBacked", candidate.descriptor,
         candidate.commitments, candidate.commitments.head_data))
     EXCEPT !.PA[candidate.descriptor.para_id] = Some(new_pending(candidate, core))]
\* One step of the sweep that writes storage: the event and the two entries.
write_candidate(candidate, core, s) ==
    [deposit_event(s, Event("CandidateBacked", candidate.descriptor,
         candidate.commitments, candidate.commitments.head_data))
     EXCEPT !.PA[candidate.descriptor.para_id] = Some(new_pending(candidate, core)),
            !.PAC[candidate.descriptor.para_id] = Some(candidate.commitments)]

\* The sweep that writes storage, from pair k of zip(candidates, core_indices) on.
RECURSIVE write_candidates(_, _, _, _)
write_candidates(candidates, core_indices, k, s) ==
    IF k > Len(candidates) \/ k > Len(core_indices) THEN s
    ELSE write_candidates(candidates, core_indices, k + 1,
             write_candidate(candidates[k], core_indices[k], s))

\* Variant of matched_candidates: the early return keeps what was matched before it.
matched_candidates_partial(candidates, scheduled, m) ==
    IF m.kind = "Early"
        THEN [res |-> Ok(m.core_indices),
              s |-> write_candidates(candidates, m.core_indices, 1, Store)]
    ELSE IF m.kind # "Ok" THEN [res |-> Err(m.kind), s |-> Store]
    ELSE IF ~check_remainder(scheduled, m.skip + 1, m.last_core)
        THEN [res |-> Err("ScheduledOutOfOrder"), s |-> Store]
    ELSE [res |-> Ok(m.core_indices),
          s |-> write_candidates(candidates, m.core_indices, 1, Store)]
\* Variant of matched_candidates: what was matched before a failing check is written.
matched_candidates_eager(candidates, scheduled, m) ==
    IF m.kind = "Early" THEN [res |-> Ok(<<>>), s |-> Store]
    ELSE IF m.kind # "Ok"
        THEN [res |-> Err(m.kind),
              s |-> [write_candidates(candidates, m.core_indices, 1, Store)
                        EXCEPT !.events = <<>>]]
    ELSE IF ~check_remainder(scheduled, m.skip + 1, m.last_core)
        THEN [res |-> Err("ScheduledOutOfOrder"), s |-> Store]
    ELSE [res |-> Ok(m.core_indices),
          s |-> write_candidates(candidates, m.core_indices, 1, Store)]
\* The call once the candidates are matched: the remainder check, then the writes.
matched_candidates(candidates, scheduled, m) ==
    IF m.kind = "Early" THEN [res |-> Ok(<<>>), s |-> Store]
    ELSE IF m.kind # "Ok" THEN [res |-> Err(m.kind), s |-> Store]
    ELSE IF ~check_remainder(scheduled, m.skip + 1, m.last_core)
        THEN [res |-> Err("ScheduledOutOfOrder"), s |-> Store]
    ELSE [res |-> Ok(m.core_indices),
          s |-> write_candidates(candidates, m.core_indices, 1, Store)]

\* Variant of process_candidates: the lengths of the two lists are not compared.
process_candidates_any_length(candidates, scheduled, group_validators) ==
    IF Len(scheduled) = 0
        THEN [res |-> Ok(<<>>), s |-> Store]
    ELSE matched_candidates(candidates, scheduled,
             match_candidates(candidates, scheduled, group_validators, 1, 0, None, <<>>))
\* The whole call: [res, s].
process_candidates(candidates, scheduled, group_validators) ==
    IF ~(Len(candidates) <= Len(scheduled))
        THEN [res |-> Err("UnscheduledCandidate"), s |-> Store]
    ELSE IF Len(scheduled) = 0
        THEN [res |-> Ok(<<>>), s |-> Store]
    ELSE matched_candidates(candidates, scheduled,
             match_candidates(candidates, scheduled, group_validators, 1, 0, None, <<>>))

\* --------------------------------------------------------------- collect_pending
\* The order in which a storage map is iterated.
IterationOrder == <<1, 2, 3>>
EvalPred(pred, core, backed_in_number) ==
    core \in pred.cores /\ backed_in_number < pred.before

RECURSIVE collect_matching_first(_, _)
RECURSIVE collect_matching(_, _)
\* Variant of collect_matching: the loop ends at the first record the predicate holds for.
collect_matching_first(pred, k) ==
    IF k > Len(IterationOrder) THEN [ids |-> <<>>, cores |-> <<>>]
    ELSE LET para_id == IterationOrder[k]
             record == PendingAvailability[para_id]
         IN IF IsSome(record)
               /\ EvalPred(pred, Unwrap(record).core, Unwrap(record).backed_in_number)
            THEN [ids |-> <<para_id>>, cores |-> <<Unwrap(record).core>>]
            ELSE collect_matching_first(pred, k + 1)
\* The first loop: the paras (ids) and cores of the records the predicate holds for.
collect_matching(pred, k) ==
    IF k > Len(IterationOrder) THEN [ids |-> <<>>, cores |-> <<>>]
    ELSE LET para_id == IterationOrder[k]
             rest == collect_matching(pred, k + 1)
             record == PendingAvailability[para_id]
         IN IF IsSome(record)
               /\ EvalPred(pred, Unwrap(record).core, Unwrap(record).backed_in_number)
            THEN [ids |-> <<para_id>> \o rest.ids,
                  cores |-> <<Unwrap(record).core>> \o rest.cores]
            ELSE rest

RECURSIVE clean_up_pairs_only(_, _, _)
RECURSIVE clean_up(_, _, _)
\* Variant of clean_up: the entries of a para are taken only when both are there.
clean_up_pairs_only(ids, k, s) ==
    IF k > Len(ids) THEN s
    ELSE LET para_id == ids[k]
             pending == s.PA[para_id]
             commitments == s.PAC[para_id]
             taken == [s EXCEPT !.PA[para_id] = None, !.PAC[para_id] = None]
         IN clean_up_pairs_only(ids, k + 1,
                IF IsSome(pending) /\ IsSome(commitments)
                THEN deposit_event(taken, Event("CandidateTimedOut", Unwrap(pending).descriptor,
                         Unwrap(commitments), Unwrap(commitments).head_data))
                ELSE s)
RECURSIVE clean_up_reporting(_, _, _)
\* Variant of clean_up: the event is deposited and the two entries stay.
clean_up_reporting(ids, k, s) ==
    IF k > Len(ids) THEN s
    ELSE LET para_id == ids[k]
             pending == s.PA[para_id]
             commitments == s.PAC[para_id]
         IN clean_up_reporting(ids, k + 1,
                IF IsSome(pending) /\ IsSome(commitments)
                THEN deposit_event(s, Event("CandidateTimedOut", Unwrap(pending).descriptor,
                         Unwrap(commitments), Unwrap(commitments).head_data))
                ELSE s)
\* The second loop: both entries of each para are taken; an event if both were there.
clean_up(ids, k, s) ==
    IF k > Len(ids) THEN s
    ELSE LET para_id == ids[k]
             pending == s.PA[para_id]
             commitments == s.PAC[para_id]
             taken == [s EXCEPT !.PA[para_id] = None, !.PAC[para_id] = None]
         IN clean_up(ids, k + 1,
                IF IsSome(pending) /\ IsSome(commitments)
                THEN deposit_event(taken, Event("CandidateTimedOut", Unwrap(pending).descriptor,
                         Unwrap(commitments), Unwrap(commitments).head_data))
                ELSE taken)

\* Variant of collected: the first para cleaned up gets the head of its commitments.
collected_enacting(found) ==
    [res |-> Ok(found.cores),
     s |-> IF found.ids # <<>> /\ IsSome(PendingAvailabilityCommitments[found.ids[1]])
           THEN note_new_head(clean_up(found.ids, 1, Store), found.ids[1],
                    Unwrap(PendingAvailabilityCommitments[found.ids[1]]).head_data, now)
           ELSE clean_up(found.ids, 1, Store)]
collected(found) == [res |-> Ok(found.cores), s |-> clean_up(found.ids, 1, Store)]
collect_pending(pred) == collected(collect_matching(pred, 1))

\* ------------------------------------------------------------------- force_enact
\* Variant of force_enact: the candidate is enacted only at the availability threshold.
force_enact_at_threshold(para) ==
    LET pending == PendingAvailability[para]
        commitments == PendingAvailabilityCommitments[para]
        taken == [Store EXCEPT !.PA[para] = None, !.PAC[para] = None]
    IN [res |-> Ok(<<>>),
        s |-> IF /\ IsSome(pending) /\ IsSome(commitments)
                 /\ is_available(Unwrap(pending), availability_threshold(Len(Validators)))
              THEN enact_candidate(taken, Unwrap(pending).relay_parent_number,
                       Unwrap(pending).descriptor, Unwrap(commitments))
              ELSE taken]
force_enact(para) ==
    LET pending == PendingAvailability[para]
        commitments == PendingAvailabilityCommitments[para]
        taken == [Store EXCEPT !.PA[para] = None, !.PAC[para] = None]
    IN [res |-> Ok(<<>>),
        s |-> IF IsSome(pending) /\ IsSome(commitments)
              THEN enact_candidate(taken, Unwrap(pending).relay_parent_number,
                       Unwrap(pending).descriptor, Unwrap(commitments))
              ELSE taken]

\* ------------------------------------------------------ initializer_on_new_session
\* Variant of drain: the iterator is dropped without being consumed, and nothing is removed.
drain_unconsumed(map) == map
drain(map) == [k \in DOMAIN map |-> None]
\* Variant of initializer_on_new_session: the pending records and commitments stay.
initializer_on_new_session_keeping_pending(notification) ==
    [PAC |-> PendingAvailabilityCommitments,
     PA |-> PendingAvailability,
     AB |-> drain(AvailabilityBitfields),
     Validators |-> notification.validators,
     CurrentSessionIndex |-> notification.session_index]
initializer_on_new_session(notification) ==
    [PAC |-> drain(PendingAvailabilityCommitments),
     PA |-> drain(PendingAvailability),
     AB |-> drain(AvailabilityBitfields),
     Validators |-> notification.validators,
     CurrentSessionIndex |-> notification.session_index]


\* ------------------------------------------------------------------ inputs
\* What the callers hand in, drawn from small sets.  A well-formed input is built
\* for the current state; the other inputs carry one defect each.
Keys == <<"alice", "bob", "charlie", "dave", "ferdie">>
KeySet == {Keys[i] : i \in DOMAIN Keys}
ValidatorIndices == 0 .. (Len(Keys) - 1)
Collators == {"one", "two"}
GroupIndices == 0 .. 2
OtherKey(key) == CHOOSE k \in KeySet : k # key
OtherSession == (CurrentSessionIndex + 1) % (MaxSession + 1)
OtherHash == parent_hash + 1

Notifications(sets) ==
    {[validators |-> v, session_index |-> x] : v \in sets, x \in 0 .. MaxSession}

SignedBitfield(payload, validator_index, key, ctx) ==
    [payload |-> payload, validator_index |-> validator_index,
     signature |-> Sign(key, payload, ctx)]
Payloads == [1 .. n_bits -> BOOLEAN]
GoodBitfields ==
    {SignedBitfield(p, i, Validators[i + 1], SigningContext) :
        p \in Payloads, i \in 0 .. (Len(Validators) - 1)}
KeyAt(i) == IF i < Len(Validators) THEN Validators[i + 1] ELSE Keys[1]
\* Bitfields of validator i with one defect: the size, the index, the signature.
BadBitfields(i) ==
    {SignedBitfield(Zeros(n_bits + 1), i, KeyAt(i), SigningContext),
     SignedBitfield(Zeros(n_bits - 1), i, KeyAt(i), SigningContext),
     SignedBitfield(Zeros(n_bits), Len(Validators), Keys[1], SigningContext),
     SignedBitfield(Zeros(n_bits), i, KeyAt(i),
         [parent_hash |-> parent_hash, session_index |-> OtherSession]),
     SignedBitfield(Zeros(n_bits), i, KeyAt(i),
         [parent_hash |-> OtherHash, session_index |-> CurrentSessionIndex])}
    \cup {SignedBitfield(p, i, OtherKey(KeyAt(i)), SigningContext) :
            p \in {Zeros(n_bits), [b \in 1 .. n_bits |-> b = 1]}}

\* Batches of at most k good bitfields, ascending by validator index, all with
\* the payload p.
RECURSIVE GoodBatchesOf(_, _)
GoodBatchesOf(p, k) ==
    IF k = 0 THEN {<<>>}
    ELSE LET shorter == GoodBatchesOf(p, k - 1)
         IN shorter \cup
            UNION {{Append(b, g) : g \in {y \in GoodBitfields :
                                            /\ y.payload = p
                                            /\ \A j \in 1 .. (k - 1) :
                                                  b[j].validator_index < y.validator_index}} :
                   b \in {x \in shorter : Len(x) = k - 1}}
GoodBatches(k) == UNION {GoodBatchesOf(p, k) : p \in Payloads}
NextIndex(batch) == IF Len(batch) = 0 THEN 0 ELSE batch[Len(batch)].validator_index + 1
\* A good batch that starts with validator 0, followed by a bitfield with a defect or
\* by its first bitfield again; and two good bitfields in descending order.
BadBatches(k) ==
    UNION {{Append(b, x) : x \in BadBitfields(IF NextIndex(b) < Len(Validators)
                                              THEN NextIndex(b) ELSE 0)} \cup
           (IF Len(b) > 0 THEN {Append(b, b[1])} ELSE {}) :
           b \in {y \in GoodBatches(k - 1) :
                    Len(y) = 0 \/ (y[1].validator_index = 0 /\ ~y[1].payload[n_bits])}}
    \cup {<<b[2], b[1]>> : b \in {y \in GoodBatches(k) :
                                   /\ Len(y) = 2
                                   /\ y[1].validator_index = 0
                                   /\ ~y[1].payload[n_bits]}}
BitfieldBatches == GoodBatches(MaxBatch) \cup BadBatches(MaxBatch)

\* The core of the record pending for a para, and the lookups a caller may pass.
OccupantOf(core) ==
    {p \in ParaIds : IsSome(PendingAvailability[p]) /\ Unwrap(PendingAvailability[p]).core = core}
SchedulerLookup ==
    [c \in Cores |-> IF OccupantOf(c) = {} THEN None
                     ELSE Some(CHOOSE p \in OccupantOf(c) : \A q \in OccupantOf(c) : p <= q)]
\* The lookup of a scheduler that keeps parachain 1 on core 0 and the parathreads on
\* core 1, as it answers for every core or for the occupied cores only.
StaticLookup == [c \in Cores |-> Some(c + 1)]
\* Other lookups: the occupied cores only, and one para for every core.
OtherLookups == {SchedulerLookup, [c \in Cores |-> Some(1)]}
BitfieldCall(signed_bitfields, core_lookup) ==
    [signed_bitfields |-> signed_bitfields, core_lookup |-> core_lookup]
\* Any batch under the static lookup.
BitfieldCalls == {BitfieldCall(b, StaticLookup) : b \in BitfieldBatches}
\* Well-formed batches under the other lookups.
OtherBitfieldCalls ==
    {BitfieldCall(b, l) : b \in GoodBatches(MaxBatch), l \in OtherLookups}


\* Candidates.  A candidate of kind "good" passes every check that does not depend on
\* storage; each other kind differs from it in one respect.
CandidateKinds ==
    {"good", "unanimous", "by_two", "relay_parent", "collator_sig", "pvd",
     "lacking", "invalid_vote"}
CodeOptions == {None, Some(1)}
ExpectedData(para_id) ==
    IF IsSome(make_persisted_validation_data(para_id))
    THEN Unwrap(make_persisted_validation_data(para_id))
    ELSE [parent_head |-> GenesisHead, block_number |-> now - 1]
NewHead(para_id) ==
    IF IsSome(Heads[para_id]) THEN (Unwrap(Heads[para_id]).head % 2) + 1 ELSE 1
Descriptor(para_id, relay_parent, collator, signer, data_hash) ==
    [para_id |-> para_id,
     relay_parent |-> relay_parent,
     collator |-> collator,
     persisted_validation_data_hash |-> data_hash,
     pov_hash |-> 1,
     signature |-> Sign(signer, <<relay_parent, para_id, data_hash, 1>>, NoContext)]
VotesFor(kind, group_len) ==
    CASE kind = "unanimous" -> group_len
      [] kind = "lacking" -> group_len \div 2
      [] OTHER -> (group_len \div 2) + 1
BackedCandidate(para_id, code, kind, group_vals) ==
    LET descriptor ==
            Descriptor(para_id,
                IF kind = "relay_parent" THEN OtherHash ELSE parent_hash,
                IF kind = "by_two" THEN "two" ELSE "one",
                IF kind \in {"by_two", "collator_sig"} THEN "two" ELSE "one",
                IF kind = "pvd"
                THEN [parent_head |-> -1, block_number |-> now - 1]
                ELSE ExpectedData(para_id))
        commitments == [head_data |-> NewHead(para_id), new_validation_code |-> code]
        k == VotesFor(kind, Len(group_vals))
    IN [descriptor |-> descriptor,
        commitments |-> commitments,
        validator_indices |-> [i \in 1 .. Len(group_vals) |-> i <= k],
        validity_votes |->
            [i \in 1 .. k |->
                Sign(IF i <= Len(group_vals) THEN KeyAt(group_vals[i]) ELSE Keys[1],
                     <<descriptor, commitments>>,
                     IF kind = "invalid_vote" /\ i = k
                     THEN [parent_hash |-> parent_hash, session_index |-> OtherSession]
                     ELSE SigningContext)]]

Assignment(core, para_id, group_idx, required_collator) ==
    [core |-> core, para_id |-> para_id, group_idx |-> group_idx,
     required_collator |-> required_collator]
\* Validator groups: all validators but the last, the last one, and no third group.
SplitGroups ==
    [g \in GroupIndices |->
        CASE g = 0 -> Some([i \in 1 .. (IF Len(Validators) > 0 THEN Len(Validators) - 1 ELSE 0)
                              |-> i - 1])
          [] g = 1 -> Some(IF Len(Validators) > 0 THEN <<Len(Validators) - 1>> ELSE <<>>)
          [] OTHER -> None]
\* One group of all validators.
WholeGroups ==
    [g \in GroupIndices |->
        IF g = 2 THEN None ELSE Some([i \in 1 .. Len(Validators) |-> i - 1])]
GroupOf(gv, a) == IF IsSome(gv[a.group_idx]) THEN Unwrap(gv[a.group_idx]) ELSE <<>>

A(core, para_id) == Assignment(core, para_id, core, None)
Cand(gv, a, para_id, code, kind) == BackedCandidate(para_id, code, kind, GroupOf(gv, a))
Call(candidates, scheduled, gv) ==
    [candidates |-> candidates, scheduled |-> scheduled, group_validators |-> gv]

\* Where a scheduler may place a para: <<core, para>>.  The static placement keeps
\* parachain 1 on core 0 and the parathreads 2 and 3 on core 1.
StaticPlacement == {<<0, 1>>, <<1, 2>>, <<1, 3>>}
OtherPlacement == (Cores \X ParaIds) \ StaticPlacement

\* One assignment, with no candidate or with one candidate of any kind.
SingleCalls(gv, places) ==
    UNION {{Call(<<>>, <<A(x[1], x[2])>>, gv)}
           \cup {Call(<<Cand(gv, A(x[1], x[2]), x[2], None, kind)>>, <<A(x[1], x[2])>>, gv) :
                   kind \in CandidateKinds}
           \cup {Call(<<Cand(gv, A(x[1], x[2]), x[2], Some(1), "good")>>,
                       <<A(x[1], x[2])>>, gv)} :
           x \in {y \in places : y[2] \in RegisteredParas}}
    \cup {Call(<<Cand(gv, A(x[1], x[2]), x[2], None, "good")>>, <<A(x[1], x[2])>>, gv) :
            x \in {y \in places : y[2] \notin RegisteredParas}}
\* Two assignments in order; candidates for none, one or both of them.
DoubleCalls(gv, places) ==
    UNION {LET s == <<A(0, x[1]), A(1, x[2])>>
               c1(code, kind) == Cand(gv, s[1], x[1], code, kind)
               c2(code, kind) == Cand(gv, s[2], x[2], code, kind)
           IN {Call(<<>>, s, gv)}
              \cup {Call(<<c1(None, "good")>>, s, gv), Call(<<c2(None, "good")>>, s, gv)}
              \cup {Call(<<c1(code, "good"), c2(None, "good")>>, s, gv) :
                      code \in CodeOptions}
              \cup {Call(<<c1(None, "good"), c2(None, kind)>>, s, gv) :
                      kind \in CandidateKinds \ {"good"}} :
           x \in {y \in RegisteredParas \X RegisteredParas :
                    <<0, y[1]>> \in places /\ <<1, y[2]>> \in places}}
\* Calls that break the order, the schedule or the collator requirement.
OddCalls(gv) ==
    LET good(a) == Cand(gv, a, a.para_id, None, "good")
        two(a) == Cand(gv, a, a.para_id, None, "by_two")
    IN {Call(<<>>, <<>>, gv),
        Call(<<good(A(0, 1))>>, <<>>, gv),
        Call(<<good(A(0, 1)), good(A(1, 2))>>, <<A(0, 1)>>, gv),
        Call(<<good(A(1, 2))>>, <<A(0, 1)>>, gv),
        Call(<<good(A(1, 2)), good(A(0, 1))>>, <<A(0, 1), A(1, 2)>>, gv),
        Call(<<>>, <<A(1, 1), A(0, 2)>>, gv),
        Call(<<good(A(1, 1))>>, <<A(1, 1), A(0, 2)>>, gv),
        Call(<<good(A(0, 2))>>, <<A(1, 1), A(0, 2)>>, gv),
        Call(<<good(A(1, 1))>>, <<A(1, 1), A(1, 2)>>, gv),
        Call(<<good(A(1, 1)), good(A(1, 2))>>, <<A(1, 1), A(1, 2)>>, gv),
        Call(<<good(A(0, 1))>>, <<Assignment(0, 1, 2, None)>>, gv),
        Call(<<good(A(1, 2))>>, <<A(1, 1), A(0, 3), A(1, 2)>>, gv),
        Call(<<good(A(1, 3))>>, <<A(1, 3), A(0, 1)>>, gv),
        Call(<<good(A(0, 1)), good(A(1, 3))>>, <<A(0, 1), A(1, 3)>>, gv)}
       \cup {Call(<<good(A(0, 1))>>, <<Assignment(0, 1, 0, Some(r))>>, gv) : r \in Collators}
       \cup {Call(<<two(A(0, 1))>>, <<Assignment(0, 1, 0, Some(r))>>, gv) : r \in Collators}
CandidateCalls(gv, places) ==
    SingleCalls(gv, places) \cup DoubleCalls(gv, places) \cup OddCalls(gv)
\* Well-formed candidates under the other placements, and one para on both cores.
OtherCandidateCalls(gv) ==
    {Call(<<Cand(gv, A(x[1], x[2]), x[2], None, "good")>>, <<A(x[1], x[2])>>, gv) :
        x \in OtherPlacement}
    \cup UNION {LET s == <<A(0, x[1]), A(1, x[2])>>
                IN {Call(<<Cand(gv, s[1], x[1], None, "good")>>, s, gv),
                    Call(<<Cand(gv, s[2], x[2], None, "good")>>, s, gv),
                    Call(<<Cand(gv, s[1], x[1], None, "good"),
                           Cand(gv, s[2], x[2], None, "good")>>, s, gv)} :
                x \in {<<1, 1>>, <<2, 2>>, <<2, 1>>}}

\* Timeout predicates: the core is one of `cores` and it was occupied before `before`.
Predicates ==
    {[cores |-> C, before |-> t] : C \in (SUBSET Cores) \ {{}}, t \in {now, now + 1}}


\* ------------------------------------------------------------------ the machine
NoCall == [op |-> "none", args |-> <<>>, res |-> Ok(<<>>)]

EmptyStorage(validators) ==
    /\ AvailabilityBitfields = [i \in ValidatorIndices |-> None]
    /\ PendingAvailability = [p \in ParaIds |-> None]
    /\ PendingAvailabilityCommitments = [p \in ParaIds |-> None]
    /\ Validators = validators
    /\ CurrentSessionIndex = 0
    /\ now = 1
    /\ parent_hash = 0
    /\ Heads = [p \in ParaIds |->
                  IF p \in RegisteredParas THEN Some([head |-> GenesisHead, at |-> 0])
                  ELSE None]
    /\ CodeUpgrades = [p \in ParaIds |-> None]
    /\ events = <<>>
    /\ n_calls = 0
    /\ phase = "idle"
    /\ call = NoCall
    /\ pre = Snapshot

Init == EmptyStorage(<<>>)

\* A call returns: its outcome is written and the call recorded.
Returns(op, args, out) ==
    /\ n_calls' = n_calls + 1
    /\ AvailabilityBitfields' = out.s.AB
    /\ PendingAvailability' = out.s.PA
    /\ PendingAvailabilityCommitments' = out.s.PAC
    /\ Heads' = out.s.Heads
    /\ CodeUpgrades' = out.s.CodeUpgrades
    /\ events' = out.s.events
    /\ phase' = "returned"
    /\ call' = [op |-> op, args |-> args, res |-> out.res]
    /\ pre' = Snapshot
    /\ UNCHANGED <<Validators, CurrentSessionIndex, now, parent_hash>>

ProcessBitfields(bitfield_calls) ==
    /\ phase = "idle"
    /\ n_calls < MaxCalls
    /\ \E c \in bitfield_calls :
          \E out \in {process_bitfields(c.signed_bitfields, c.core_lookup)} :
              Returns("process_bitfields", c, out)

ProcessCandidates(calls) ==
    /\ phase = "idle"
    /\ n_calls < MaxCalls
    /\ \E c \in calls :
          \E out \in {process_candidates(c.candidates, c.scheduled, c.group_validators)} :
              Returns("process_candidates", c, out)

CollectPending ==
    /\ phase = "idle"
    /\ n_calls < MaxCalls
    /\ \E pred \in Predicates :
          \E out \in {collect_pending(pred)} :
              Returns("collect_pending", [pred |-> pred], out)

ForceEnact ==
    /\ phase = "idle"
    /\ n_calls < MaxCalls
    /\ \E para \in ParaIds :
          \E out \in {force_enact(para)} :
              Returns("force_enact", [para |-> para], out)

OnNewSession(sets) ==
    /\ phase = "idle"
    /\ n_calls < MaxCalls
    /\ \E notification \in Notifications(sets) :
          LET out == initializer_on_new_session(notification)
          IN /\ AvailabilityBitfields' = out.AB
             /\ PendingAvailability' = out.PA
             /\ PendingAvailabilityCommitments' = out.PAC
             /\ Validators' = out.Validators
             /\ CurrentSessionIndex' = out.CurrentSessionIndex
             /\ events' = <<>>
             /\ n_calls' = n_calls + 1
             /\ phase' = "returned"
             /\ call' = [op |-> "on_new_session", args |-> notification, res |-> Ok(<<>>)]
             /\ pre' = Snapshot
             /\ UNCHANGED <<now, parent_hash, Heads, CodeUpgrades>>

\* The driver takes the result; the events of the call are not looked at again.
Return ==
    /\ phase = "returned"
    /\ phase' = "idle"
    /\ call' = NoCall
    /\ events' = <<>>
    /\ pre' = Snapshot
    /\ UNCHANGED <<storage, now, parent_hash, Heads, CodeUpgrades, n_calls>>

\* The next relay-chain block begins.
NextBlock ==
    /\ phase = "idle"
    /\ now < MaxBlock
    /\ now' = now + 1
    /\ parent_hash' = now
    /\ UNCHANGED <<storage, Heads, CodeUpgrades, events, n_calls, phase, call, pre>>

SessionSets == {<<"alice", "bob", "charlie">>, <<"bob", "alice">>}

\* The module under a scheduler that keeps the static placement.
Next ==
    \/ ProcessBitfields(BitfieldCalls)
    \/ ProcessCandidates(CandidateCalls(SplitGroups, StaticPlacement))
    \/ CollectPending
    \/ ForceEnact
    \/ OnNewSession(SessionSets)
    \/ Return
    \/ NextBlock

Spec == Init /\ [][Next]_vars

\* The module under callers that pass other lookups and other placements as well.
NextAnyArgs ==
    \/ ProcessBitfields(BitfieldCalls \cup OtherBitfieldCalls)
    \/ ProcessCandidates(CandidateCalls(SplitGroups, StaticPlacement)
                           \cup OtherCandidateCalls(SplitGroups))
    \/ CollectPending
    \/ ForceEnact
    \/ OnNewSession(SessionSets)
    \/ Return
    \/ NextBlock

SpecAnyArgs == Init /\ [][NextAnyArgs]_vars

\* The module under a scheduler that also answers for one core only.
PartialLookups == {[c \in Cores |-> IF c = k THEN StaticLookup[c] ELSE None] : k \in Cores}
PartialBitfieldCalls ==
    {BitfieldCall(b, l) : b \in GoodBatches(MaxBatch), l \in PartialLookups}
NextPartialLookup ==
    \/ ProcessBitfields(BitfieldCalls \cup PartialBitfieldCalls)
    \/ ProcessCandidates(CandidateCalls(SplitGroups, StaticPlacement))
    \/ CollectPending
    \/ ForceEnact
    \/ OnNewSession(SessionSets)
    \/ Return
    \/ NextBlock

SpecPartialLookup == Init /\ [][NextPartialLookup]_vars

\* The module with one backing group of all five validators.
NextBacking ==
    \/ ProcessBitfields({BitfieldCall(b, StaticLookup) : b \in GoodBatches(1)})
    \/ ProcessCandidates(CandidateCalls(WholeGroups, StaticPlacement))
    \/ CollectPending
    \/ ForceEnact
    \/ OnNewSession({Keys})
    \/ Return
    \/ NextBlock

SpecBacking == Init /\ [][NextBacking]_vars

\* Storage as the tests set it up to be out of sync: three validators, and for para 1
\* commitments without a pending record, a pending record without commitments, or
\* neither.  Setting it up counts as the first call.
StrayCommitments == [head_data |-> 1, new_validation_code |-> None]
StrayRecord ==
    [core |-> 0,
     descriptor |-> Descriptor(1, 0, "one", "one",
                               [parent_head |-> GenesisHead, block_number |-> 0]),
     availability_votes |-> Zeros(3),
     relay_parent_number |-> 0,
     backed_in_number |-> 1]
InitMessedUp ==
    /\ AvailabilityBitfields = [i \in ValidatorIndices |-> None]
    /\ \E entries \in {<<None, Some(StrayCommitments)>>, <<Some(StrayRecord), None>>,
                        <<None, None>>} :
          /\ PendingAvailability = [p \in ParaIds |-> IF p = 1 THEN entries[1] ELSE None]
          /\ PendingAvailabilityCommitments =
                [p \in ParaIds |-> IF p = 1 THEN entries[2] ELSE None]
    /\ Validators = <<"alice", "bob", "charlie">>
    /\ CurrentSessionIndex = 0
    /\ now = 1
    /\ parent_hash = 0
    /\ Heads = [p \in ParaIds |->
                  IF p \in RegisteredParas THEN Some([head |-> GenesisHead, at |-> 0])
                  ELSE None]
    /\ CodeUpgrades = [p \in ParaIds |-> None]
    /\ events = <<>>
    /\ n_calls = 1
    /\ phase = "idle"
    /\ call = NoCall
    /\ pre = Snapshot

NextMessedUp ==
    \/ ProcessBitfields({BitfieldCall(b, StaticLookup) : b \in GoodBatches(MaxBatch)})
    \/ ProcessCandidates(SingleCalls(SplitGroups, StaticPlacement))
    \/ CollectPending
    \/ ForceEnact
    \/ OnNewSession(SessionSets)
    \/ Return
    \/ NextBlock

SpecMessedUp == InitMessedUp /\ [][NextMessedUp]_vars


\* Storage as the tests set it up for the upgrade check: three validators, and for
\* para 1 no code upgrade on record or one at a block up to MaxBlock.  Setting it up
\* counts as the first call.
InitUpgrade ==
    /\ AvailabilityBitfields = [i \in ValidatorIndices |-> None]
    /\ PendingAvailability = [p \in ParaIds |-> None]
    /\ PendingAvailabilityCommitments = [p \in ParaIds |-> None]
    /\ Validators = <<"alice", "bob", "charlie">>
    /\ CurrentSessionIndex = 0
    /\ now = 1
    /\ parent_hash = 0
    /\ Heads = [p \in ParaIds |->
                  IF p \in RegisteredParas THEN Some([head |-> GenesisHead, at |-> 0])
                  ELSE None]
    /\ \E last \in {None} \cup {Some(k) : k \in 0 .. MaxBlock} :
          CodeUpgrades = [p \in ParaIds |-> IF p = 1 THEN last ELSE None]
    /\ events = <<>>
    /\ n_calls = 1
    /\ phase = "idle"
    /\ call = NoCall
    /\ pre = Snapshot

SpecUpgrade == InitUpgrade /\ [][NextMessedUp]_vars


\* ------------------------------------------------------------------ properties
\* The vocabulary of the properties.  A call that has returned is described by
\* `call` (entry point, arguments, result), `pre` (storage when it started), the
\* storage variables (storage when it returned) and `events`.
Returned(op) == phase = "returned" /\ call.op = op
Succeeded == call.res.kind = "Ok"
InList(x, list) == \E i \in 1 .. Len(list) : list[i] = x
Synced(pa, pac) == \A p \in ParaIds : IsSome(pa[p]) <=> IsSome(pac[p])
Injective(lookup) ==
    \A c \in Cores, d \in Cores : c # d /\ IsSome(lookup[c]) => lookup[c] # lookup[d]
UniqueCores(pa) ==
    \A p \in ParaIds, q \in ParaIds :
        p # q /\ IsSome(pa[p]) /\ IsSome(pa[q]) => Unwrap(pa[p]).core # Unwrap(pa[q]).core
CoreIsFree(pa, core) == \A p \in ParaIds : IsSome(pa[p]) => Unwrap(pa[p]).core # core
StorageUntouched == Snapshot = pre /\ events = <<>>
ParaOf(candidate) == candidate.descriptor.para_id
\* The first assignment of the returned call that names the para.
AssignmentOf(para_id) ==
    call.args.scheduled[CHOOSE j \in 1 .. Len(call.args.scheduled) :
        /\ call.args.scheduled[j].para_id = para_id
        /\ \A k \in 1 .. (j - 1) : call.args.scheduled[k].para_id # para_id]
\* A successful process_candidates call that admitted its candidates.
Admitted == Returned("process_candidates") /\ Succeeded /\ call.res.value # <<>>
\* A process_candidates call with one candidate and one assignment.
SingleCandidate ==
    /\ Returned("process_candidates")
    /\ Len(call.args.candidates) = 1
    /\ Len(call.args.scheduled) = 1


\* ---- C1
\* C1 as stated: in every reachable state, whatever the arguments of the calls, a
\* para has a PendingAvailability entry iff it has a PendingAvailabilityCommitments
\* entry.
C1_PendingIffCommitments == Synced(PendingAvailability, PendingAvailabilityCommitments)

\* C1 amended: every call keeps "PendingAvailability entry iff
\* PendingAvailabilityCommitments entry", unless it is a process_bitfields call whose
\* core_lookup names one para for two cores.
C1_PendingIffCommitmentsUnderInjectiveLookup ==
    (/\ phase = "returned"
     /\ Synced(pre.PendingAvailability, pre.PendingAvailabilityCommitments)
     /\ (call.op = "process_bitfields" => Injective(call.args.core_lookup)))
    => Synced(PendingAvailability, PendingAvailabilityCommitments)

\* A process_bitfields call with an injective lookup has enacted a candidate.
C1_Witness ==
    /\ Returned("process_bitfields")
    /\ Succeeded
    /\ Injective(call.args.core_lookup)
    /\ Synced(pre.PendingAvailability, pre.PendingAvailabilityCommitments)
    /\ call.res.value # <<>>
    /\ \E p \in ParaIds : IsSome(PendingAvailability[p])


\* ---- C2
\* The votes of a pending para after the batch of the returned process_bitfields call
\* is folded: the stored votes and those of every bitfield with a bit set for the para.
FoldedVotes(p) ==
    LET stored == Unwrap(pre.PendingAvailability[p]).availability_votes
        batch == call.args.signed_bitfields
    IN [i \in 1 .. Len(stored) |->
          \/ stored[i]
          \/ \E k \in 1 .. Len(batch) :
                /\ batch[k].validator_index = i - 1
                /\ \E b \in 1 .. n_bits :
                      batch[k].payload[b] /\ call.args.core_lookup[b - 1] = Some(p)]

CheckErrors ==
    {"WrongBitfieldSize", "BitfieldDuplicateOrUnordered", "ValidatorIndexOutOfBounds",
     "UnoccupiedBitInBitfield", "InvalidBitfieldSignature"}

\* C3: a process_bitfields call that fails a check on any bitfield of its batch leaves
\* the bitfield records, the pending candidates with their votes, the commitments and
\* the heads as they were, and deposits no event.
C3_BitfieldsAllOrNothing ==
    Returned("process_bitfields") /\ call.res.kind \in CheckErrors => StorageUntouched

\* The second bitfield of a batch failed its check after a first one that passed its
\* checks and carried a vote for a pending candidate.
C3_Witness ==
    /\ Returned("process_bitfields")
    /\ call.res.kind = "InvalidBitfieldSignature"
    /\ Len(call.args.signed_bitfields) = 2
    /\ \E b \in 1 .. n_bits : call.args.signed_bitfields[1].payload[b]
    /\ \E p \in ParaIds : IsSome(PendingAvailability[p])


\* ---- C4
\* C4: a process_candidates call that returns an error leaves storage as it was and
\* deposits no event, whichever candidate or assignment the error is about.
C4_CandidatesAllOrNothing ==
    Returned("process_candidates") /\ ~Succeeded => StorageUntouched

\* The second candidate of a batch failed the backing check after a first candidate
\* that passed every check.
C4_Witness ==
    /\ Returned("process_candidates")
    /\ call.res.kind = "InsufficientBacking"
    /\ Len(call.args.candidates) = 2
    /\ IsNone(PendingAvailability[ParaOf(call.args.candidates[1])])


\* ---- C5
\* C5 as stated: in every reachable state no two paras have pending candidates on the
\* same core.
C5_OneCandidatePerCore == UniqueCores(PendingAvailability)

\* C5 amended: every call keeps the cores of the pending candidates distinct, unless
\* it is a process_candidates call with an assignment for a core that holds a
\* pending candidate.
C5_OneCandidatePerCoreOnFreeCores ==
    (/\ phase = "returned"
     /\ UniqueCores(pre.PendingAvailability)
     /\ (call.op = "process_candidates" =>
            \A j \in 1 .. Len(call.args.scheduled) :
                CoreIsFree(pre.PendingAvailability, call.args.scheduled[j].core)))
    => UniqueCores(PendingAvailability)

\* A candidate was admitted on a free core while another para was pending.
C5_Witness ==
    /\ Admitted
    /\ \E p \in ParaIds : IsSome(pre.PendingAvailability[p])
    /\ \A j \in 1 .. Len(call.args.scheduled) :
          CoreIsFree(pre.PendingAvailability, call.args.scheduled[j].core)
    /\ UniqueCores(pre.PendingAvailability)


VoteVerifies(candidate, group_vals, k) ==
    /\ k <= Cardinality(set_indices(candidate.validator_indices))
    /\ LET idx == nth_set_index(candidate.validator_indices, k)
       IN /\ idx <= Len(group_vals)
          /\ group_vals[idx] < Len(Validators)
          /\ Verify(candidate.validity_votes[k], Validators[group_vals[idx] + 1],
                    <<candidate.descriptor, candidate.commitments>>, SigningContext)
AllVotesVerify(candidate, group_vals) ==
    \A k \in 1 .. Len(candidate.validity_votes) : VoteVerifies(candidate, group_vals, k)
GroupFor(candidate) == GroupOf(call.args.group_validators, AssignmentOf(ParaOf(candidate)))
\* The call got as far as the backing check of its candidate.
BackingChecked ==
    \/ Admitted
    \/ call.res.kind \in {"InvalidBacking", "InsufficientBacking"}

\* C8: every admitted candidate has only valid votes, and v of them with
\* v * 2 > group size.  A call with one candidate that gets as far as the backing
\* check fails with InsufficientBacking if every vote is valid and v * 2 <= group
\* size, and with InvalidBacking if a vote does not verify.
C8_BackingMajority ==
    /\ Admitted =>
          \A i \in 1 .. Len(call.args.candidates) :
              LET candidate == call.args.candidates[i]
              IN /\ AllVotesVerify(candidate, GroupFor(candidate))
                 /\ Len(candidate.validity_votes) * 2 > Len(GroupFor(candidate))
    /\ SingleCandidate /\ BackingChecked =>
          LET candidate == call.args.candidates[1]
              valid == AllVotesVerify(candidate, GroupFor(candidate))
              v == Len(candidate.validity_votes)
          IN /\ (valid /\ v * 2 <= Len(GroupFor(candidate))
                   => call.res.kind = "InsufficientBacking")
             /\ (~valid => call.res.kind = "InvalidBacking")

\* A call failed with InvalidBacking for a candidate with a majority of votes, one
\* of which does not verify.
C8_Witness ==
    /\ SingleCandidate
    /\ call.res.kind = "InvalidBacking"
    /\ Len(call.args.candidates[1].validity_votes) * 2
          > Len(GroupFor(call.args.candidates[1]))
    /\ ~AllVotesVerify(call.args.candidates[1], GroupFor(call.args.candidates[1]))
    /\ \E k \in 1 .. Len(call.args.candidates[1].validity_votes) :
          VoteVerifies(call.args.candidates[1], GroupFor(call.args.candidates[1]), k)


\* ---- C9
\* C9 as stated: a candidate is admitted only if its valid votes are at least
\* group size - floor(group size / 3), the threshold of availability.
C9_BackingBySupermajority ==
    Admitted =>
        \A i \in 1 .. Len(call.args.candidates) :
            LET candidate == call.args.candidates[i]
                group_size == Len(GroupFor(candidate))
            IN Len(candidate.validity_votes) >= group_size - (group_size \div 3)

\* C9 amended: the backing test is a strict majority, not the availability threshold:
\* a candidate with v valid votes that gets as far as the backing check is admitted
\* iff v * 2 > group size.
C9_BackingByMajority ==
    SingleCandidate /\ BackingChecked
      /\ AllVotesVerify(call.args.candidates[1], GroupFor(call.args.candidates[1])) =>
        (Succeeded <=>
            Len(call.args.candidates[1].validity_votes) * 2
                > Len(GroupFor(call.args.candidates[1])))

\* A candidate was admitted with a majority of votes below the availability threshold.
C9_Witness ==
    /\ SingleCandidate
    /\ Admitted
    /\ Len(call.args.candidates[1].validity_votes)
          < availability_threshold(Len(GroupFor(call.args.candidates[1])))


\* ---- C10
ParaWasFree(p) ==
    IsNone(pre.PendingAvailability[p]) /\ IsNone(pre.PendingAvailabilityCommitments[p])
\* The call got as far as the check that the para of its candidate is free.
FreeChecked ==
    \/ BackingChecked
    \/ call.res.kind \in {"CandidateScheduledBeforeParaFree", "InvalidGroupIndex"}

\* C10: a process_candidates call with one candidate that gets as far as the check
\* fails with CandidateScheduledBeforeParaFree iff the para of the candidate has a
\* pending candidate or pending commitments; every admitted candidate's para was
\* free, and no call changes a pending candidate or commitments that were there.
C10_ParaFree ==
    Returned("process_candidates") =>
        /\ SingleCandidate /\ FreeChecked =>
              (call.res.kind = "CandidateScheduledBeforeParaFree"
                  <=> ~ParaWasFree(ParaOf(call.args.candidates[1])))
        /\ Admitted =>
              \A i \in 1 .. Len(call.args.candidates) :
                  ParaWasFree(ParaOf(call.args.candidates[i]))
        /\ \A p \in ParaIds :
              /\ IsSome(pre.PendingAvailability[p])
                    => PendingAvailability[p] = pre.PendingAvailability[p]
              /\ IsSome(pre.PendingAvailabilityCommitments[p])
                    => PendingAvailabilityCommitments[p]
                          = pre.PendingAvailabilityCommitments[p]

\* A well-formed candidate was refused because commitments lingered for its para,
\* which had no pending candidate.
C10_Witness ==
    /\ SingleCandidate
    /\ call.res.kind = "CandidateScheduledBeforeParaFree"
    /\ IsNone(PendingAvailability[ParaOf(call.args.candidates[1])])
    /\ IsSome(PendingAvailabilityCommitments[ParaOf(call.args.candidates[1])])
    /\ AllVotesVerify(call.args.candidates[1], GroupFor(call.args.candidates[1]))


\* ---- C11
\* The arguments of the returned process_candidates call.
Batch == call.args.candidates
Schedule == call.args.scheduled
StrictlyAscending(scheduled) ==
    \A j \in 1 .. (Len(scheduled) - 1) : scheduled[j].core < scheduled[j + 1].core
\* The outer loop over the candidates before candidate i.  The call is looked at after
\* it returned, so this is what the call computed only when it left storage as it was.
Prefix(i) ==
    match_candidates(SubSeq(Batch, 1, i - 1), Schedule, call.args.group_validators,
        1, 0, None, <<>>)
\* The call got as far as candidate i: every candidate before it was matched.
Reached(i) ==
    /\ Returned("process_candidates")
    /\ StorageUntouched
    /\ Len(Batch) <= Len(Schedule)
    /\ i \in 1 .. Len(Batch)
    /\ Prefix(i).kind = "Ok"
\* No assignment after the cursor names the para of candidate i.
NotScheduledAfterCursor(i) ==
    \A j \in (Prefix(i).skip + 1) .. Len(Schedule) : Schedule[j].para_id # ParaOf(Batch[i])

\* C11: a process_candidates call with more candidates than assignments fails with
\* UnscheduledCandidate; so does a call (with an ascending assignment list) that gets
\* as far as a candidate that passes the checks on the candidate alone and whose para
\* no assignment after the cursor names; no other call fails with that error.  A call
\* with no candidates and no assignments returns an empty list and changes nothing.
C11_UnscheduledCandidate ==
    Returned("process_candidates") =>
        /\ Len(Batch) > Len(Schedule) => call.res.kind = "UnscheduledCandidate"
        /\ \A i \in 1 .. Len(Batch) :
              (/\ Reached(i)
               /\ check_candidate(Batch[i], now - 1) = "Ok"
               /\ NotScheduledAfterCursor(i)
               /\ StrictlyAscending(Schedule))
              => call.res.kind = "UnscheduledCandidate"
        /\ call.res.kind = "UnscheduledCandidate" =>
              \/ Len(Batch) > Len(Schedule)
              \/ \E i \in 1 .. Len(Batch) : Reached(i) /\ NotScheduledAfterCursor(i)
        /\ Batch = <<>> /\ Schedule = <<>> =>
              call.res = Ok(<<>>) /\ StorageUntouched

\* A candidate for a para that is not scheduled was refused, with as many
\* assignments as candidates.
C11_Witness ==
    /\ Returned("process_candidates")
    /\ call.res.kind = "UnscheduledCandidate"
    /\ Len(Batch) = 1
    /\ Len(Schedule) = 1
    /\ Schedule[1].para_id # ParaOf(Batch[1])
    /\ Validators # <<>>


\* ---- C12
\* Two candidates in the opposite order to the two assignments of their paras.
Reversed ==
    /\ Returned("process_candidates")
    /\ Len(Batch) = 2
    /\ Len(Schedule) = 2
    /\ StrictlyAscending(Schedule)
    /\ Schedule[1].para_id # Schedule[2].para_id
    /\ ParaOf(Batch[1]) = Schedule[2].para_id
    /\ ParaOf(Batch[2]) = Schedule[1].para_id
\* Candidate i of the batch, handed in alone with the same assignments, is admitted.
AdmittedAlone(i) ==
    LET alone == process_candidates(<<Batch[i]>>, Schedule, call.args.group_validators)
    IN alone.res.kind = "Ok" /\ alone.res.value # <<>>

\* C12: a process_candidates call with two candidates in the opposite order to the
\* assignments of their paras admits neither and leaves storage as it was; if each of
\* the two would be admitted alone, the call fails with UnscheduledCandidate.
C12_OrderOfCandidates ==
    Reversed =>
        /\ ~Admitted
        /\ StorageUntouched
        /\ (AdmittedAlone(1) /\ AdmittedAlone(2) => call.res.kind = "UnscheduledCandidate")

\* Two candidates that would each be admitted alone were refused in reversed order.
C12_Witness ==
    /\ Reversed
    /\ AdmittedAlone(1)
    /\ AdmittedAlone(2)
    /\ call.res.kind = "UnscheduledCandidate"


\* ---- C13
\* The first assignment whose core is not greater than the core before it.
FirstRegression(scheduled) ==
    CHOOSE j \in 2 .. Len(scheduled) :
        /\ scheduled[j].core <= scheduled[j - 1].core
        /\ \A k \in 2 .. (j - 1) : scheduled[k].core > scheduled[k - 1].core
\* The only candidate of the call is admitted when the assignments are cut before
\* the first regression.
AdmittedBeforeRegression ==
    LET cut == process_candidates(Batch,
                   SubSeq(Schedule, 1, FirstRegression(Schedule) - 1),
                   call.args.group_validators)
    IN cut.res.kind = "Ok" /\ cut.res.value # <<>>
\* No assignment before the first regression names the para of the only candidate.
NotScheduledBeforeRegression ==
    \A j \in 1 .. (FirstRegression(Schedule) - 1) : Schedule[j].para_id # ParaOf(Batch[1])

InParentContext(candidate) == candidate.descriptor.relay_parent = parent_hash

\* C14: a process_candidates call that gets as far as a candidate whose relay_parent
\* is not the parent hash fails with CandidateNotInParentContext, and no other call
\* fails with that error; every admitted candidate has the parent hash as its
\* relay_parent.
C14_ParentContext ==
    Returned("process_candidates") =>
        /\ \A i \in 1 .. Len(Batch) :
              Reached(i) /\ ~InParentContext(Batch[i])
                  => call.res.kind = "CandidateNotInParentContext"
        /\ call.res.kind = "CandidateNotInParentContext" =>
              \E i \in 1 .. Len(Batch) : ~InParentContext(Batch[i])
        /\ Admitted => \A i \in 1 .. Len(Batch) : InParentContext(Batch[i])

\* The second candidate of a batch was refused for its relay parent after a first
\* candidate that would have been admitted alone.
C14_Witness ==
    /\ Returned("process_candidates")
    /\ call.res.kind = "CandidateNotInParentContext"
    /\ Len(Batch) = 2
    /\ InParentContext(Batch[1])
    /\ AdmittedAlone(1)
    /\ ~InParentContext(Batch[2])


\* ---- C15
DeclaresCode(candidate) == IsSome(candidate.commitments.new_validation_code)
\* The upgrade check as the claim states it, on the record of the last upgrade at the
\* start of the call and the number of the relay parent.
UpgradeAllowed(candidate) ==
    LET last == pre.CodeUpgrades[ParaOf(candidate)]
        relay_parent_number == now - 1
    IN \/ ~DeclaresCode(candidate)
       \/ IsNone(last)
       \/ /\ Unwrap(last) <= relay_parent_number
          /\ relay_parent_number - Unwrap(last) >= config.validation_upgrade_frequency

\* C15: a process_candidates call that gets as far as the upgrade check of a candidate
\* fails with PrematureCodeUpgrade if the candidate declares new code and the para has
\* a last upgrade on record with last > relay_parent_number or
\* relay_parent_number - last < validation_upgrade_frequency, where
\* relay_parent_number = now - 1.  No call fails with that error otherwise, in
\* particular none without a candidate that declares code, and every admitted
\* candidate passes the upgrade check.
C15_UpgradeCheck ==
    Returned("process_candidates") =>
        /\ \A i \in 1 .. Len(Batch) :
              Reached(i) /\ InParentContext(Batch[i]) /\ ~UpgradeAllowed(Batch[i])
                  => call.res.kind = "PrematureCodeUpgrade"
        /\ call.res.kind = "PrematureCodeUpgrade" =>
              \E i \in 1 .. Len(Batch) :
                  DeclaresCode(Batch[i]) /\ ~UpgradeAllowed(Batch[i])
        /\ Admitted => \A i \in 1 .. Len(Batch) : UpgradeAllowed(Batch[i])

\* A candidate that declares code was admitted for a para with an upgrade on record,
\* enough blocks after it.
C15_Witness ==
    /\ Admitted
    /\ DeclaresCode(Batch[1])
    /\ IsSome(pre.CodeUpgrades[ParaOf(Batch[1])])

\* A candidate that declares code was refused for an upgrade on record that is not in
\* the future but too recent.
C15_WitnessRefused ==
    /\ Returned("process_candidates")
    /\ call.res.kind = "PrematureCodeUpgrade"
    /\ IsSome(pre.CodeUpgrades[ParaOf(Batch[1])])
    /\ Unwrap(pre.CodeUpgrades[ParaOf(Batch[1])]) <= now - 1


\* ---- C16
CollatorSigned(candidate) == check_collator_signature(candidate.descriptor)
\* The assignment asks for a collator other than the candidate's.
AsksForAnother(assignment, candidate) ==
    /\ IsSome(assignment.required_collator)
    /\ Unwrap(assignment.required_collator) # candidate.descriptor.collator

\* C16: every admitted candidate is signed by its collator, and its collator is the
\* one its assignment requires, if it requires one.  A call that gets as far as the
\* signature check of a candidate whose signature does not verify fails with
\* NotCollatorSigned; a call with one candidate that passes that check and one
\* assignment, for its para, that requires another collator fails with WrongCollator.
\* No call fails with either error otherwise.
C16_Collator ==
    Returned("process_candidates") =>
        /\ Admitted =>
              \A i \in 1 .. Len(Batch) :
                  /\ CollatorSigned(Batch[i])
                  /\ ~AsksForAnother(AssignmentOf(ParaOf(Batch[i])), Batch[i])
        /\ \A i \in 1 .. Len(Batch) :
              (/\ Reached(i)
               /\ InParentContext(Batch[i])
               /\ UpgradeAllowed(Batch[i])
               /\ ~CollatorSigned(Batch[i]))
              => call.res.kind = "NotCollatorSigned"
        /\ (/\ SingleCandidate
            /\ InParentContext(Batch[1])
            /\ UpgradeAllowed(Batch[1])
            /\ CollatorSigned(Batch[1])
            /\ Schedule[1].para_id = ParaOf(Batch[1])
            /\ AsksForAnother(Schedule[1], Batch[1]))
              => call.res.kind = "WrongCollator"
        /\ call.res.kind = "NotCollatorSigned" =>
              \E i \in 1 .. Len(Batch) : ~CollatorSigned(Batch[i])
        /\ call.res.kind = "WrongCollator" =>
              \E i \in 1 .. Len(Batch), j \in 1 .. Len(Schedule) :
                  Schedule[j].para_id = ParaOf(Batch[i]) /\ AsksForAnother(Schedule[j], Batch[i])

\* A correctly signed candidate was refused because its assignment requires another
\* collator.
C16_Witness ==
    /\ SingleCandidate
    /\ call.res.kind = "WrongCollator"
    /\ CollatorSigned(Batch[1])
    /\ Validators # <<>>

\* A candidate of collator "two" was admitted on an assignment that requires no
\* collator, and one on an assignment that requires "two".
C16_WitnessAnyCollator ==
    /\ SingleCandidate
    /\ Admitted
    /\ Batch[1].descriptor.collator = "two"
    /\ IsNone(Schedule[1].required_collator)
C16_WitnessRequired ==
    /\ SingleCandidate
    /\ Admitted
    /\ Schedule[1].required_collator = Some("two")


\* ---- C17
\* Whether validation data can be produced for the candidate's para, and whether the
\* candidate carries its hash.
HasValidationData(candidate) == IsSome(make_persisted_validation_data(ParaOf(candidate)))
CarriesDataHash(candidate) ==
    make_persisted_validation_data(ParaOf(candidate))
        = Some(candidate.descriptor.persisted_validation_data_hash)
\* The only candidate of the call passes the checks made before its validation data
\* is looked at, on the only assignment, which is for its para.
DataChecked ==
    /\ SingleCandidate
    /\ InParentContext(Batch[1])
    /\ UpgradeAllowed(Batch[1])
    /\ CollatorSigned(Batch[1])
    /\ Schedule[1].para_id = ParaOf(Batch[1])
    /\ ~AsksForAnother(Schedule[1], Batch[1])

\* C17: a call whose candidate gets as far as the validation data fails with
\* ValidationDataHashMismatch if the data of its para has another hash than the
\* candidate carries, and returns Ok with an empty list if there is no data for its
\* para.  A call that succeeds for a batch with a candidate whose para has no data
\* returns an empty list, and a call that returns an empty list leaves storage as it
\* was and deposits no event, whatever came earlier in the batch.  No call fails with
\* ValidationDataHashMismatch otherwise.
C17_ValidationData ==
    Returned("process_candidates") =>
        /\ DataChecked /\ HasValidationData(Batch[1]) /\ ~CarriesDataHash(Batch[1])
              => call.res.kind = "ValidationDataHashMismatch"
        /\ DataChecked /\ ~HasValidationData(Batch[1]) => call.res = Ok(<<>>)
        /\ \A i \in 1 .. Len(Batch) :
              (/\ Reached(i)
               /\ InParentContext(Batch[i])
               /\ UpgradeAllowed(Batch[i])
               /\ CollatorSigned(Batch[i])
               /\ StrictlyAscending(Schedule)
               /\ \E j \in (Prefix(i).skip + 1) .. Len(Schedule) :
                     /\ Schedule[j].para_id = ParaOf(Batch[i])
                     /\ IsNone(Schedule[j].required_collator)
               /\ ~HasValidationData(Batch[i]))
              => call.res = Ok(<<>>)
        /\ (Succeeded /\ \E i \in 1 .. Len(Batch) : ~HasValidationData(Batch[i]))
              => call.res.value = <<>>
        /\ Succeeded /\ call.res.value = <<>> => StorageUntouched
        /\ call.res.kind = "ValidationDataHashMismatch" =>
              \E i \in 1 .. Len(Batch) :
                  HasValidationData(Batch[i]) /\ ~CarriesDataHash(Batch[i])

\* A batch was dropped for its second candidate, whose para has no validation data,
\* after a first candidate that would have been admitted alone.
C17_Witness ==
    /\ Returned("process_candidates")
    /\ call.res = Ok(<<>>)
    /\ Len(Batch) = 2
    /\ AdmittedAlone(1)
    /\ ~HasValidationData(Batch[2])

\* A candidate was refused for the hash of its validation data.
C17_WitnessMismatch ==
    /\ DataChecked
    /\ call.res.kind = "ValidationDataHashMismatch"
    /\ Validators # <<>>


\* ---- C18
\* The checks of process_bitfields on bitfield k of the returned call's batch, as the
\* spec states them, on storage as it was when the call started.
Bitfields == call.args.signed_bitfields
SizeOk(k) == Len(Bitfields[k].payload) = n_bits
OrderOk(k) == k = 1 \/ Bitfields[k - 1].validator_index < Bitfields[k].validator_index
IndexOk(k) == Bitfields[k].validator_index < Len(Validators)
OccupiedOk(k) ==
    \A b \in 1 .. n_bits :
        Bitfields[k].payload[b] =>
            /\ IsSome(call.args.core_lookup[b - 1])
            /\ IsSome(pre.PendingAvailability[Unwrap(call.args.core_lookup[b - 1])])
SignatureOk(k) ==
    Bitfields[k].signature =
        Sign(Validators[Bitfields[k].validator_index + 1], Bitfields[k].payload,
             [parent_hash |-> parent_hash, session_index |-> CurrentSessionIndex])
PassesChecks(k) ==
    SizeOk(k) /\ OrderOk(k) /\ IndexOk(k) /\ OccupiedOk(k) /\ SignatureOk(k)
\* Every bitfield before bitfield k passes every check.
BitfieldsBefore(k) == \A j \in 1 .. (k - 1) : PassesChecks(j)

\* C18: a process_bitfields call with a bitfield whose length is not n_bits, longer or
\* shorter, does not succeed; it fails with WrongBitfieldSize when the bitfields before
\* that one pass their checks, and no call fails with that error otherwise.
C18_WrongBitfieldSize ==
    Returned("process_bitfields") =>
        /\ (\E k \in 1 .. Len(Bitfields) : ~SizeOk(k)) => ~Succeeded
        /\ \A k \in 1 .. Len(Bitfields) :
              BitfieldsBefore(k) /\ ~SizeOk(k) => call.res.kind = "WrongBitfieldSize"
        /\ call.res.kind = "WrongBitfieldSize" => \E k \in 1 .. Len(Bitfields) : ~SizeOk(k)

\* A batch was refused for its second bitfield, which is longer than n_bits, after a
\* first one that passes the checks.
C18_Witness ==
    /\ Returned("process_bitfields")
    /\ call.res.kind = "WrongBitfieldSize"
    /\ Len(Bitfields) = 2
    /\ PassesChecks(1)
    /\ Len(Bitfields[2].payload) > n_bits

\* A batch was refused for a bitfield shorter than n_bits.
C18_WitnessShorter ==
    /\ Returned("process_bitfields")
    /\ call.res.kind = "WrongBitfieldSize"
    /\ \E k \in 1 .. Len(Bitfields) : Len(Bitfields[k].payload) < n_bits


\* ---- C19
\* C19: the validator indices of the batch of a successful process_bitfields call are
\* strictly ascending, so no two of its bitfields are of the same validator.  A call
\* with a bitfield of the right size whose validator index is not greater than the
\* one before it fails with BitfieldDuplicateOrUnordered when the bitfields before it
\* pass their checks, and no call fails with that error otherwise.
C19_Ascending ==
    Returned("process_bitfields") =>
        /\ Succeeded =>
              /\ \A k \in 1 .. Len(Bitfields) : OrderOk(k)
              /\ \A j \in 1 .. Len(Bitfields), k \in 1 .. Len(Bitfields) :
                    j # k => Bitfields[j].validator_index # Bitfields[k].validator_index
        /\ \A k \in 1 .. Len(Bitfields) :
              BitfieldsBefore(k) /\ SizeOk(k) /\ ~OrderOk(k)
                  => call.res.kind = "BitfieldDuplicateOrUnordered"
        /\ call.res.kind = "BitfieldDuplicateOrUnordered" =>
              \E k \in 1 .. Len(Bitfields) : ~OrderOk(k)

\* A batch was refused for two bitfields of the same validator.
C19_Witness ==
    /\ Returned("process_bitfields")
    /\ call.res.kind = "BitfieldDuplicateOrUnordered"
    /\ Len(Bitfields) = 2
    /\ PassesChecks(1)
    /\ Bitfields[2].validator_index = Bitfields[1].validator_index

\* A batch was refused for a bitfield of a validator before the one of the bitfield
\* before it.
C19_WitnessUnordered ==
    /\ Returned("process_bitfields")
    /\ call.res.kind = "BitfieldDuplicateOrUnordered"
    /\ Len(Bitfields) = 2
    /\ PassesChecks(1)
    /\ Bitfields[2].validator_index < Bitfields[1].validator_index


\* ---- C20
\* C20: in every state, bitfield records are stored only for validator indices below
\* the size of the validator set, and every pending candidate has one vote per
\* validator of the set.  A process_bitfields call with a bitfield whose validator
\* index is not below that size does not succeed; it fails with
\* ValidatorIndexOutOfBounds when the bitfields before it pass their checks and the
\* bitfield passes the checks of size and order, and no call fails with that error
\* otherwise.
C20_ValidatorIndexInBounds ==
    /\ \A i \in ValidatorIndices : IsSome(AvailabilityBitfields[i]) => i < Len(Validators)
    /\ \A p \in ParaIds :
          IsSome(PendingAvailability[p]) =>
              Len(Unwrap(PendingAvailability[p]).availability_votes) = Len(Validators)
    /\ Returned("process_bitfields") =>
          /\ (\E k \in 1 .. Len(Bitfields) : ~IndexOk(k)) => ~Succeeded
          /\ \A k \in 1 .. Len(Bitfields) :
                BitfieldsBefore(k) /\ SizeOk(k) /\ OrderOk(k) /\ ~IndexOk(k)
                    => call.res.kind = "ValidatorIndexOutOfBounds"
          /\ call.res.kind = "ValidatorIndexOutOfBounds" =>
                \E k \in 1 .. Len(Bitfields) : ~IndexOk(k)

\* A batch was refused for its second bitfield, of an index that is the size of the
\* validator set, after a first one that passes the checks.
C20_Witness ==
    /\ Returned("process_bitfields")
    /\ call.res.kind = "ValidatorIndexOutOfBounds"
    /\ Len(Bitfields) = 2
    /\ PassesChecks(1)
    /\ Bitfields[2].validator_index = Len(Validators)


\* ---- C21
HasSetBit(k) == \E b \in 1 .. Len(Bitfields[k].payload) : Bitfields[k].payload[b]

\* C21: a process_bitfields call with a bitfield (of the right size) that sets a bit
\* for a core for which the lookup names no para, or a para with no pending candidate
\* when the call started, does not succeed; it fails with UnoccupiedBitInBitfield when
\* the bitfields before it pass their checks and the bitfield passes the checks made
\* before this one.  No call fails with that error otherwise: the bitfield it fails
\* for has a bit set.
C21_UnoccupiedBit ==
    Returned("process_bitfields") =>
        /\ (\E k \in 1 .. Len(Bitfields) : SizeOk(k) /\ ~OccupiedOk(k)) => ~Succeeded
        /\ \A k \in 1 .. Len(Bitfields) :
              (BitfieldsBefore(k) /\ SizeOk(k) /\ OrderOk(k) /\ IndexOk(k) /\ ~OccupiedOk(k))
                  => call.res.kind = "UnoccupiedBitInBitfield"
        /\ call.res.kind = "UnoccupiedBitInBitfield" =>
              \E k \in 1 .. Len(Bitfields) : SizeOk(k) /\ ~OccupiedOk(k) /\ HasSetBit(k)
        /\ \A k \in 1 .. Len(Bitfields) : SizeOk(k) /\ ~HasSetBit(k) => OccupiedOk(k)

\* A bitfield was refused for a bit of a core for which the lookup names no para.
C21_Witness ==
    /\ Returned("process_bitfields")
    /\ call.res.kind = "UnoccupiedBitInBitfield"
    /\ Validators # <<>>
    /\ \E b \in 1 .. n_bits :
          Bitfields[1].payload[b] /\ IsNone(call.args.core_lookup[b - 1])

\* A bitfield was refused for a bit of a core whose para has no pending candidate,
\* while the para of another core has one.
C21_WitnessNotPending ==
    /\ Returned("process_bitfields")
    /\ call.res.kind = "UnoccupiedBitInBitfield"
    /\ \E b \in 1 .. n_bits :
          /\ Bitfields[1].payload[b]
          /\ IsSome(call.args.core_lookup[b - 1])
          /\ IsNone(pre.PendingAvailability[Unwrap(call.args.core_lookup[b - 1])])
    /\ \E p \in ParaIds : IsSome(pre.PendingAvailability[p])


\* ---- C22
\* C22: every bitfield of a successful process_bitfields call carries the signature,
\* of its payload, of the key at its validator index in the current validator set
\* under the current parent hash and session index.  A call fails with
\* InvalidBitfieldSignature when it gets as far as the signature check of a bitfield
\* without such a signature, no call fails with that error otherwise, and a call
\* that fails with it has folded nothing.  So a
\* bitfield signed for another session index, or by another key than the one now at
\* its index, is in no successful batch.
C22_BitfieldSignature ==
    Returned("process_bitfields") =>
        /\ Succeeded => \A k \in 1 .. Len(Bitfields) : IndexOk(k) /\ SignatureOk(k)
        /\ \A k \in 1 .. Len(Bitfields) :
              (/\ BitfieldsBefore(k)
               /\ SizeOk(k) /\ OrderOk(k) /\ IndexOk(k) /\ OccupiedOk(k)
               /\ ~SignatureOk(k))
              => call.res.kind = "InvalidBitfieldSignature"
        /\ call.res.kind = "InvalidBitfieldSignature" =>
              \E k \in 1 .. Len(Bitfields) : IndexOk(k) /\ ~SignatureOk(k)
        /\ call.res.kind = "InvalidBitfieldSignature" => StorageUntouched
        /\ Succeeded =>
              \A k \in 1 .. Len(Bitfields) :
                  /\ Bitfields[k].signature.context.session_index = CurrentSessionIndex
                  /\ Bitfields[k].signature.signer = Validators[Bitfields[k].validator_index + 1]

\* After a session change, a bitfield signed by the key at its index for the session
\* before was refused.
C22_Witness ==
    /\ Returned("process_bitfields")
    /\ call.res.kind = "InvalidBitfieldSignature"
    /\ CurrentSessionIndex = 1
    /\ \E k \in 1 .. Len(Bitfields) :
          /\ BitfieldsBefore(k)
          /\ IndexOk(k)
          /\ Bitfields[k].signature.signer = Validators[Bitfields[k].validator_index + 1]
          /\ Bitfields[k].signature.context.parent_hash = parent_hash
          /\ Bitfields[k].signature.context.session_index = 0

\* A bitfield signed under the current context by another key than the one at its
\* index was refused.
C22_WitnessOtherKey ==
    /\ Returned("process_bitfields")
    /\ call.res.kind = "InvalidBitfieldSignature"
    /\ \E k \in 1 .. Len(Bitfields) :
          /\ BitfieldsBefore(k)
          /\ IndexOk(k)
          /\ Bitfields[k].signature.signer # Validators[Bitfields[k].validator_index + 1]
          /\ Bitfields[k].signature.context =
                [parent_hash |-> parent_hash, session_index |-> CurrentSessionIndex]


\* ---- C23
\* The validators with a bitfield in the batch of the call.
InBatch(v) == \E k \in 1 .. Len(Bitfields) : Bitfields[k].validator_index = v
\* The para the lookup of the call names for the core of bit b.
LookedUp(b) == call.args.core_lookup[b - 1]
\* The vote of validator v is set in the pending record of para p.
VoteSet(p, v) == Unwrap(PendingAvailability[p]).availability_votes[v + 1]

Desynced(p) ==
    IsSome(pre.PendingAvailability[p]) /\ IsNone(pre.PendingAvailabilityCommitments[p])
\* Para p had a pending record and commitments before the call.
InSync(p) ==
    IsSome(pre.PendingAvailability[p]) /\ IsSome(pre.PendingAvailabilityCommitments[p])
\* The lookup of the call names para p for some core.
Named(p) == \E c \in DOMAIN call.args.core_lookup : call.args.core_lookup[c] = Some(p)
\* The votes of para p with the votes of the batch for the core p is looked up for.
VotesAfter(p) ==
    [v \in 1 .. Len(Unwrap(pre.PendingAvailability[p]).availability_votes) |->
        \/ Unwrap(pre.PendingAvailability[p]).availability_votes[v]
        \/ \E k \in 1 .. Len(Bitfields) :
              /\ Bitfields[k].validator_index = v - 1
              /\ \E b \in 1 .. n_bits : Bitfields[k].payload[b] /\ LookedUp(b) = Some(p)]
ReachesThreshold(p) ==
    count_ones(VotesAfter(p)) >= availability_threshold(Len(Validators))
Freed(core) == \E i \in 1 .. Len(call.res.value) : call.res.value[i] = core
IncludedEvents(p) ==
    {i \in 1 .. Len(events) :
        events[i].kind = "CandidateIncluded" /\ events[i].descriptor.para_id = p}

\* C24: with a para that has a pending record and no commitments, a process_bitfields
\* call whose bitfields all pass the checks returns Ok.  A call that returns Ok has
\* not enacted that para's candidate (its head and code upgrade are as before and
\* there is no CandidateIncluded event for it) and has not freed its core, below the
\* threshold (the record stays with the votes of the batch) and at the threshold (the
\* record is removed); a para with record and commitments is enacted and its core
\* freed at the threshold, and keeps its record with the votes below it.
C24_OutOfSyncBitfields ==
    (Returned("process_bitfields") /\ \E p \in ParaIds : Desynced(p) /\ Named(p)) =>
        /\ (\A k \in 1 .. Len(Bitfields) : PassesChecks(k)) => Succeeded
        /\ Succeeded =>
              \A p \in ParaIds :
                  /\ (Desynced(p) /\ Named(p)) =>
                        /\ Heads[p] = pre.Heads[p]
                        /\ CodeUpgrades[p] = pre.CodeUpgrades[p]
                        /\ IncludedEvents(p) = {}
                        /\ ~Freed(Unwrap(pre.PendingAvailability[p]).core)
                        /\ IsNone(PendingAvailabilityCommitments[p])
                        /\ PendingAvailability[p] =
                              IF ReachesThreshold(p) THEN None
                              ELSE Some([Unwrap(pre.PendingAvailability[p]) EXCEPT
                                            !.availability_votes = VotesAfter(p)])
                  /\ (InSync(p) /\ Named(p) /\ ReachesThreshold(p)) =>
                        /\ IsNone(PendingAvailability[p])
                        /\ IsNone(PendingAvailabilityCommitments[p])
                        /\ Heads[p] =
                              Some([head |-> Unwrap(pre.PendingAvailabilityCommitments[p]).head_data,
                                    at |-> Unwrap(pre.PendingAvailability[p]).relay_parent_number])
                        /\ Cardinality(IncludedEvents(p)) = 1
                        /\ Freed(Unwrap(pre.PendingAvailability[p]).core)
                  /\ (InSync(p) /\ Named(p) /\ ~ReachesThreshold(p)) =>
                        /\ PendingAvailability[p] =
                              Some([Unwrap(pre.PendingAvailability[p]) EXCEPT
                                       !.availability_votes = VotesAfter(p)])
                        /\ PendingAvailabilityCommitments[p] = pre.PendingAvailabilityCommitments[p]
                        /\ Heads[p] = pre.Heads[p]

\* The votes for a record without commitments reached the threshold in a call that
\* returned Ok, and another para was enacted in the same call.
C24_Witness ==
    /\ Returned("process_bitfields")
    /\ Succeeded
    /\ \E p \in ParaIds :
          /\ Desynced(p) /\ Named(p)
          /\ ReachesThreshold(p)
          /\ IsNone(PendingAvailability[p])
    /\ \E q \in ParaIds :
          /\ InSync(q) /\ Named(q)
          /\ ReachesThreshold(q)
          /\ IncludedEvents(q) # {}

\* The votes for a record without commitments stayed below the threshold.
C24_WitnessBelowThreshold ==
    /\ Returned("process_bitfields")
    /\ Succeeded
    /\ \E p \in ParaIds :
          /\ Desynced(p) /\ Named(p)
          /\ ~ReachesThreshold(p)
          /\ count_ones(VotesAfter(p)) > 0
          /\ IsSome(PendingAvailability[p])


\* ---- C25
\* The call that has returned enacted the pending candidate of para p: force_enact for
\* p, or a successful process_bitfields call in which p's votes reached the threshold.
EnactedByCall(p) ==
    /\ phase = "returned"
    /\ InSync(p)
    /\ \/ call.op = "force_enact" /\ call.args.para = p
       \/ /\ call.op = "process_bitfields"
          /\ Succeeded
          /\ Named(p)
          /\ ReachesThreshold(p)
EnactedRecord(p) == Unwrap(pre.PendingAvailability[p])
EnactedCommitments(p) == Unwrap(pre.PendingAvailabilityCommitments[p])
AllIncludedEvents == {i \in 1 .. Len(events) : events[i].kind = "CandidateIncluded"}

\* C25: a call that enacts the candidate of a para sets the para's head to the head
\* data of the commitments at the record's relay_parent_number, deposits one
\* CandidateIncluded event for it (with the record's descriptor and that head data),
\* and sets the para's code upgrade to relay_parent_number + validation_upgrade_delay
\* when the commitments carry new validation code; without new code the para's code
\* upgrade is as before.  Such a call deposits no other CandidateIncluded event and
\* changes no head and no code upgrade of a para it does not enact.
C25_Enactment ==
    (phase = "returned" /\ call.op \in {"force_enact", "process_bitfields"}) =>
        /\ \A p \in ParaIds :
              EnactedByCall(p) =>
                  /\ Heads[p] = Some([head |-> EnactedCommitments(p).head_data,
                                      at |-> EnactedRecord(p).relay_parent_number])
                  /\ Cardinality(IncludedEvents(p)) = 1
                  /\ \A i \in IncludedEvents(p) :
                        /\ events[i].descriptor = EnactedRecord(p).descriptor
                        /\ events[i].head_data = EnactedCommitments(p).head_data
                  /\ CodeUpgrades[p] =
                        IF IsSome(EnactedCommitments(p).new_validation_code)
                        THEN Some(EnactedRecord(p).relay_parent_number
                                      + config.validation_upgrade_delay)
                        ELSE pre.CodeUpgrades[p]
        /\ \A p \in ParaIds :
              ~EnactedByCall(p) =>
                  /\ Heads[p] = pre.Heads[p]
                  /\ CodeUpgrades[p] = pre.CodeUpgrades[p]
                  /\ IncludedEvents(p) = {}
        /\ Cardinality(AllIncludedEvents) = Cardinality({p \in ParaIds : EnactedByCall(p)})

\* A candidate with new validation code was enacted by the votes of a batch, and the
\* upgrade is on record at the delay after its relay parent.
C25_Witness ==
    /\ Returned("process_bitfields")
    /\ \E p \in ParaIds :
          /\ EnactedByCall(p)
          /\ IsSome(EnactedCommitments(p).new_validation_code)
          /\ IsNone(pre.CodeUpgrades[p])
          /\ CodeUpgrades[p] = Some(EnactedRecord(p).relay_parent_number
                                        + config.validation_upgrade_delay)
          /\ Heads[p] # pre.Heads[p]

\* A candidate without new validation code was enacted by force_enact.
C25_WitnessNoCode ==
    /\ Returned("force_enact")
    /\ EnactedByCall(call.args.para)
    /\ IsNone(EnactedCommitments(call.args.para).new_validation_code)
    /\ Heads[call.args.para] # pre.Heads[call.args.para]
    /\ Len(events) = 1

\* Two candidates were enacted by one call.
C25_WitnessTwo ==
    /\ Returned("process_bitfields")
    /\ Cardinality({p \in ParaIds : EnactedByCall(p)}) = 2


\* ---- C26
\* The paras whose pending record, before the call, satisfies the predicate of the call.
Flagged ==
    {p \in ParaIds :
        /\ IsSome(pre.PendingAvailability[p])
        /\ Unwrap(pre.PendingAvailability[p]).core \in call.args.pred.cores
        /\ Unwrap(pre.PendingAvailability[p]).backed_in_number < call.args.pred.before}
FlaggedOn(core) == {p \in Flagged : Unwrap(pre.PendingAvailability[p]).core = core}
ReturnedAt(core) == {i \in 1 .. Len(call.res.value) : call.res.value[i] = core}
TimedOutEvents(p) ==
    {i \in 1 .. Len(events) :
        events[i].kind = "CandidateTimedOut" /\ events[i].descriptor.para_id = p}

\* C26: collect_pending(pred) removes both entries of every para whose pending record
\* satisfies pred(core, backed_in_number) and leaves both entries of every other para
\* as they were; it returns the core of each of those records, once per record and
\* nothing else; it deposits one CandidateTimedOut event for each removed pair and no
\* other event; AvailabilityBitfields, Validators, CurrentSessionIndex and the heads
\* and code upgrades of the paras are as before.
C26_CollectPending ==
    Returned("collect_pending") =>
        /\ Succeeded
        /\ \A p \in ParaIds :
              IF p \in Flagged
              THEN /\ IsNone(PendingAvailability[p])
                   /\ IsNone(PendingAvailabilityCommitments[p])
              ELSE /\ PendingAvailability[p] = pre.PendingAvailability[p]
                   /\ PendingAvailabilityCommitments[p] = pre.PendingAvailabilityCommitments[p]
        /\ Len(call.res.value) = Cardinality(Flagged)
        /\ \A c \in Cores : Cardinality(ReturnedAt(c)) = Cardinality(FlaggedOn(c))
        /\ \A p \in ParaIds :
              Cardinality(TimedOutEvents(p)) =
                  IF p \in Flagged /\ IsSome(pre.PendingAvailabilityCommitments[p])
                  THEN 1 ELSE 0
        /\ \A i \in 1 .. Len(events) : events[i].kind = "CandidateTimedOut"
        /\ AvailabilityBitfields = pre.AvailabilityBitfields
        /\ Validators = pre.Validators
        /\ CurrentSessionIndex = pre.CurrentSessionIndex
        /\ Heads = pre.Heads
        /\ CodeUpgrades = pre.CodeUpgrades

\* A predicate for core 0 only removed the pair of the para on core 0 and left the
\* pair of the para on core 1.
C26_Witness ==
    /\ Returned("collect_pending")
    /\ call.args.pred.cores = {0}
    /\ call.res.value = <<0>>
    /\ Len(events) = 1
    /\ \E p \in Flagged : IsSome(pre.PendingAvailabilityCommitments[p])
    /\ \E q \in ParaIds \ Flagged :
          /\ IsSome(PendingAvailability[q])
          /\ IsSome(PendingAvailabilityCommitments[q])
    /\ \E v \in DOMAIN AvailabilityBitfields : IsSome(AvailabilityBitfields[v])

\* Two pairs were removed by one call.
C26_WitnessTwo ==
    /\ Returned("collect_pending")
    /\ Cardinality(Flagged) = 2
    /\ Len(events) = 2

\* A record on a core of the predicate stayed: it was backed too late for the predicate.
C26_WitnessTooRecent ==
    /\ Returned("collect_pending")
    /\ \E p \in ParaIds \ Flagged :
          /\ IsSome(PendingAvailability[p])
          /\ Unwrap(PendingAvailability[p]).core \in call.args.pred.cores


\* ---- C27
\* The flagged paras whose commitments were missing before the call.
FlaggedWithoutCommitments ==
    {p \in Flagged : IsNone(pre.PendingAvailabilityCommitments[p])}

\* C27: collect_pending returns its cores whatever the storage holds; for a para whose
\* pending record satisfies the predicate and whose commitments are missing, the
\* record is removed, its core is among the returned cores, and no CandidateTimedOut
\* event (no event at all) is deposited for that para.
C27_CollectWithoutCommitments ==
    Returned("collect_pending") =>
        /\ Succeeded
        /\ \A p \in FlaggedWithoutCommitments :
              /\ IsNone(PendingAvailability[p])
              /\ IsNone(PendingAvailabilityCommitments[p])
              /\ ReturnedAt(Unwrap(pre.PendingAvailability[p]).core) # {}
              /\ TimedOutEvents(p) = {}
              /\ \A i \in 1 .. Len(events) : events[i].descriptor.para_id # p
        /\ Len(call.res.value) >= Cardinality(FlaggedWithoutCommitments)

\* A record without commitments was collected: its core is returned and there is no
\* event.
C27_Witness ==
    /\ Returned("collect_pending")
    /\ FlaggedWithoutCommitments # {}
    /\ call.res.value # <<>>
    /\ events = <<>>

\* A record without commitments and a pair were collected by one call: one event.
C27_WitnessWithPair ==
    /\ Returned("collect_pending")
    /\ FlaggedWithoutCommitments # {}
    /\ Flagged \ FlaggedWithoutCommitments # {}
    /\ Len(call.res.value) = 2
    /\ Len(events) = 1


\* ---- C28
\* The para force_enact was called for.
Forced == call.args.para
VotesOf(p) == count_ones(Unwrap(pre.PendingAvailability[p]).availability_votes)

\* C28: force_enact for a para with a pending record and commitments enacts the
\* candidate whatever its votes are: afterwards the head of the para is the head data
\* of the commitments, there is a CandidateIncluded event for the candidate, and the
\* para has neither entry; the entries of the other paras are as before.
C28_ForceEnact ==
    (Returned("force_enact") /\ InSync(Forced)) =>
        /\ Succeeded
        /\ IsSome(Heads[Forced])
        /\ Unwrap(Heads[Forced]).head = EnactedCommitments(Forced).head_data
        /\ \E i \in 1 .. Len(events) :
              /\ events[i].kind = "CandidateIncluded"
              /\ events[i].descriptor = EnactedRecord(Forced).descriptor
        /\ IsNone(PendingAvailability[Forced])
        /\ IsNone(PendingAvailabilityCommitments[Forced])
        /\ \A q \in ParaIds \ {Forced} :
              /\ PendingAvailability[q] = pre.PendingAvailability[q]
              /\ PendingAvailabilityCommitments[q] = pre.PendingAvailabilityCommitments[q]
              /\ Heads[q] = pre.Heads[q]

\* A candidate without a single vote was enacted by force_enact.
C28_Witness ==
    /\ Returned("force_enact")
    /\ InSync(Forced)
    /\ VotesOf(Forced) = 0
    /\ Len(Validators) > 0
    /\ Heads[Forced] # pre.Heads[Forced]

\* A candidate with votes below the threshold was enacted by force_enact.
C28_WitnessSomeVotes ==
    /\ Returned("force_enact")
    /\ InSync(Forced)
    /\ VotesOf(Forced) > 0
    /\ VotesOf(Forced) < availability_threshold(Len(Validators))
    /\ Heads[Forced] # pre.Heads[Forced]


\* ---- C29
\* C29: force_enact for a para that does not have both a pending record and
\* commitments changes nothing: the storage is as before the call and no event is
\* deposited.
C29_NoOpWithoutPair ==
    (Returned("force_enact") /\ ~InSync(Forced)) => StorageUntouched

\* force_enact was called for a para with one of the two entries only.
C29_WitnessOneEntry ==
    /\ Returned("force_enact")
    /\ IsSome(pre.PendingAvailability[Forced]) # IsSome(pre.PendingAvailabilityCommitments[Forced])

\* What does hold: force_enact for a para without the pair deposits no event, changes
\* no head and no code upgrade, leaves AvailabilityBitfields and the entries of the
\* other paras as they were, and changes nothing at all when the para has neither
\* entry; an entry the para has alone is removed.
C29_IncompletePairRemoved ==
    (Returned("force_enact") /\ ~InSync(Forced)) =>
        /\ Succeeded
        /\ events = <<>>
        /\ Heads = pre.Heads
        /\ CodeUpgrades = pre.CodeUpgrades
        /\ AvailabilityBitfields = pre.AvailabilityBitfields
        /\ Validators = pre.Validators
        /\ CurrentSessionIndex = pre.CurrentSessionIndex
        /\ IsNone(PendingAvailability[Forced])
        /\ IsNone(PendingAvailabilityCommitments[Forced])
        /\ \A q \in ParaIds \ {Forced} :
              /\ PendingAvailability[q] = pre.PendingAvailability[q]
              /\ PendingAvailabilityCommitments[q] = pre.PendingAvailabilityCommitments[q]


\* ---- C30
HadEntries ==
    /\ \E v \in DOMAIN pre.AvailabilityBitfields : IsSome(pre.AvailabilityBitfields[v])
    /\ \E p \in ParaIds : IsSome(pre.PendingAvailability[p])
    /\ \E p \in ParaIds : IsSome(pre.PendingAvailabilityCommitments[p])

\* C30: after initializer_on_new_session(notification), whatever the storage held,
\* AvailabilityBitfields, PendingAvailability and PendingAvailabilityCommitments have
\* no entry, Validators and CurrentSessionIndex are the notification's validators and
\* session_index, and nothing was enacted: no event is deposited and the heads and
\* code upgrades of the paras are as before.
C30_SessionChange ==
    Returned("on_new_session") =>
        /\ \A v \in DOMAIN AvailabilityBitfields : IsNone(AvailabilityBitfields[v])
        /\ \A p \in ParaIds : IsNone(PendingAvailability[p])
        /\ \A p \in ParaIds : IsNone(PendingAvailabilityCommitments[p])
        /\ Validators = call.args.validators
        /\ CurrentSessionIndex = call.args.session_index
        /\ events = <<>>
        /\ Heads = pre.Heads
        /\ CodeUpgrades = pre.CodeUpgrades

\* A session change with another validator set and session index wiped a bitfield
\* record and a pending candidate with its commitments.
C30_Witness ==
    /\ Returned("on_new_session")
    /\ HadEntries
    /\ pre.Validators # Validators
    /\ pre.CurrentSessionIndex # CurrentSessionIndex

\* A session change wiped storage in which a para had one of the two entries only.
C30_WitnessOutOfSync ==
    /\ Returned("on_new_session")
    /\ \E p \in ParaIds :
          IsSome(pre.PendingAvailability[p]) # IsSome(pre.PendingAvailabilityCommitments[p])


\* ---- C31
\* The validator-set sizes the threshold is compared for.
ThresholdSizes == 0 .. (3 * Len(Keys))
\* The integer part of n / 3, by its definition.
FloorOfThird(n) == CHOOSE q \in 0 .. n : 3 * q <= n /\ n < 3 * q + 3
ThresholdFormula ==
    \A n \in ThresholdSizes : availability_threshold(n) = n - FloorOfThird(n)
\* The threshold of the current validator set.
CurrentThreshold == availability_threshold(Len(Validators))

\* C31 as stated: availability_threshold(n) = n - floor(n/3) for every n, the threshold
\* is 4 for five validators, 3 for three and 1 for one; the threshold of the current
\* validator set is the one stated for its size.
C31_ThresholdAsStated ==
    /\ ThresholdFormula
    /\ Len(Validators) = 5 => CurrentThreshold = 4
    /\ Len(Validators) = 3 => CurrentThreshold = 3
    /\ Len(Validators) = 1 => CurrentThreshold = 1

\* C31, amended: availability_threshold(n) = n - floor(n/3) for every n; the threshold
\* is 4 for five validators, 2 for three and 1 for one.
C31_Threshold ==
    /\ ThresholdFormula
    /\ availability_threshold(5) = 4
    /\ availability_threshold(3) = 2
    /\ availability_threshold(1) = 1
    /\ Len(Validators) = 3 => CurrentThreshold = 2

\* With three validators, a candidate with two votes was enacted by process_bitfields.
C31_Witness ==
    /\ Returned("process_bitfields")
    /\ Len(Validators) = 3
    /\ \E p \in ParaIds :
          /\ EnactedByCall(p)
          /\ count_ones(VotesAfter(p)) = 2


\* ---- C32
\* The events of the call that end the candidate of para p, and the ones that begin one.
RemovalEvents(p) ==
    {i \in 1 .. Len(events) :
        /\ events[i].kind \in {"CandidateIncluded", "CandidateTimedOut"}
        /\ events[i].descriptor.para_id = p}
BackedEvents(p) ==
    {i \in 1 .. Len(events) :
        events[i].kind = "CandidateBacked" /\ events[i].descriptor.para_id = p}
\* Event i is about the candidate that was pending for para p before the call.
AboutPendingBefore(i, p) ==
    /\ IsSome(pre.PendingAvailability[p])
    /\ IsSome(pre.PendingAvailabilityCommitments[p])
    /\ events[i].descriptor = Unwrap(pre.PendingAvailability[p]).descriptor
    /\ events[i].commitments_hash = Unwrap(pre.PendingAvailabilityCommitments[p])
\* Event i is about the candidate that is pending for para p after the call.
AboutPendingAfter(i, p) ==
    /\ IsSome(PendingAvailability[p])
    /\ IsSome(PendingAvailabilityCommitments[p])
    /\ events[i].descriptor = Unwrap(PendingAvailability[p]).descriptor
    /\ events[i].commitments_hash = Unwrap(PendingAvailabilityCommitments[p])

C32_WitnessTimedOut ==
    /\ Returned("collect_pending")
    /\ \E p \in ParaIds : \E i \in RemovalEvents(p) : events[i].kind = "CandidateTimedOut"

\* A candidate was wiped by a session change.
C32_WitnessWiped ==
    /\ Returned("on_new_session")
    /\ \E p \in ParaIds : IsSome(pre.PendingAvailabilityCommitments[p])


\* ---- C33
\* The pending record of para p with its votes left out.
WithoutVotes(record) ==
    [core |-> record.core, descriptor |-> record.descriptor,
     relay_parent_number |-> record.relay_parent_number,
     backed_in_number |-> record.backed_in_number]

VotesBefore(p) == Unwrap(pre.PendingAvailability[p]).availability_votes
VotesNow(p) == Unwrap(PendingAvailability[p]).availability_votes
StaysPending(p) == IsSome(pre.PendingAvailability[p]) /\ IsSome(PendingAvailability[p])
\* Every vote the batch of the call casts for para p was set before the call: the
\* batch, or batches with its votes, have been folded for the candidate already.
AlreadyFolded(p) ==
    \A k \in 1 .. Len(Bitfields) :
        \A b \in 1 .. n_bits :
            (Bitfields[k].payload[b] /\ LookedUp(b) = Some(p))
            => VotesBefore(p)[Bitfields[k].validator_index + 1]
\* Validator v's bitfield in the batch is the one on record for it from an earlier block.
Resubmitted(k) ==
    /\ IsSome(pre.AvailabilityBitfields[Bitfields[k].validator_index])
    /\ Unwrap(pre.AvailabilityBitfields[Bitfields[k].validator_index]).bitfield
          = Bitfields[k].payload
    /\ Unwrap(pre.AvailabilityBitfields[Bitfields[k].validator_index]).submitted_at < now

\* C34: for a candidate that stays pending over a successful process_bitfields call,
\* every vote set before the call is set after it, whatever the bitfields of the call
\* say for its core; and when the votes of the batch for the candidate have been
\* folded before, its votes after the call are its votes before the call.
C34_MonotoneIdempotent ==
    (Returned("process_bitfields") /\ Succeeded) =>
        \A p \in ParaIds :
            StaysPending(p) =>
                /\ Len(VotesNow(p)) = Len(VotesBefore(p))
                /\ \A v \in 1 .. Len(VotesBefore(p)) : VotesBefore(p)[v] => VotesNow(p)[v]
                /\ AlreadyFolded(p) => VotesNow(p) = VotesBefore(p)

\* A batch on record from an earlier block was folded again for a candidate that has
\* its votes already: the votes are as before.
C34_Witness ==
    /\ Returned("process_bitfields")
    /\ Succeeded
    /\ Len(Bitfields) > 0
    /\ \A k \in 1 .. Len(Bitfields) : Resubmitted(k)
    /\ \E p \in ParaIds :
          /\ StaysPending(p)
          /\ AlreadyFolded(p)
          /\ \E k \in 1 .. Len(Bitfields) :
                \E b \in 1 .. n_bits : Bitfields[k].payload[b] /\ LookedUp(b) = Some(p)
          /\ VotesNow(p) = VotesBefore(p)

\* A validator that had voted for a candidate sent a bitfield without the bit of its
\* core: the vote is still set.
C34_WitnessBitCleared ==
    /\ Returned("process_bitfields")
    /\ Succeeded
    /\ \E p \in ParaIds :
          /\ StaysPending(p)
          /\ \E k \in 1 .. Len(Bitfields) :
                /\ VotesBefore(p)[Bitfields[k].validator_index + 1]
                /\ VotesNow(p)[Bitfields[k].validator_index + 1]
                /\ \A b \in 1 .. n_bits : LookedUp(b) = Some(p) => ~Bitfields[k].payload[b]


\* ---- C35
\* The pending record of para p was removed by the call.
RemovedByCall(p) == IsSome(pre.PendingAvailability[p]) /\ IsNone(PendingAvailability[p])
\* The head of para p before the call is of a candidate backed and enacted in this block.
EnactedThisBlock(p) ==
    /\ IsSome(pre.Heads[p])
    /\ Unwrap(pre.Heads[p]).head # GenesisHead
    /\ Unwrap(pre.Heads[p]).at = now - 1

\* C35: a para whose pending record was removed by process_bitfields, collect_pending
\* or force_enact is free when the call returns: it has no commitments either.  A
\* process_candidates call fails with CandidateScheduledBeforeParaFree only when the
\* para of one of its candidates had a pending record or commitments before the call,
\* so not for a para freed by the call before; and the record of every candidate it
\* admits has one vote bit per validator, none of them set.
C35_FreeAfterRemoval ==
    /\ (phase = "returned"
          /\ call.op \in {"process_bitfields", "collect_pending", "force_enact"})
       => \A p \in ParaIds :
              RemovedByCall(p) => IsNone(PendingAvailabilityCommitments[p])
    /\ Returned("process_candidates") =>
          /\ call.res.kind = "CandidateScheduledBeforeParaFree" =>
                \E i \in 1 .. Len(Batch) : ~ParaWasFree(ParaOf(Batch[i]))
          /\ Succeeded =>
                \A p \in ParaIds :
                    BackedEvents(p) # {} =>
                        /\ IsSome(PendingAvailability[p])
                        /\ VotesNow(p) = Zeros(Len(Validators))

\* A candidate was admitted for a para whose earlier candidate was enacted in the same
\* block by the votes of bitfields that are on record; the new record has no vote.
C35_Witness ==
    /\ Admitted
    /\ Len(Validators) > 0
    /\ \E p \in ParaIds :
          /\ BackedEvents(p) # {}
          /\ EnactedThisBlock(p)
          /\ VotesNow(p) = Zeros(Len(Validators))
          /\ \E v \in DOMAIN AvailabilityBitfields :
                /\ IsSome(AvailabilityBitfields[v])
                /\ Unwrap(AvailabilityBitfields[v]).submitted_at = now
                /\ Unwrap(AvailabilityBitfields[v]).bitfield[Unwrap(PendingAvailability[p]).core + 1]

\* The pending record of a para was removed by collect_pending.
C35_WitnessCollected ==
    /\ Returned("collect_pending")
    /\ \E p \in ParaIds : RemovedByCall(p)


\* ---- C36
FreedCores == call.res.value
CoresPendingBefore ==
    {Unwrap(pre.PendingAvailability[p]).core :
        p \in {q \in ParaIds : IsSome(pre.PendingAvailability[q])}}
CoresPendingNow ==
    {Unwrap(PendingAvailability[p]).core :
        p \in {q \in ParaIds : IsSome(PendingAvailability[q])}}

C36_WitnessOneOfTwo ==
    /\ Returned("process_bitfields")
    /\ Succeeded
    /\ Len(FreedCores) = 1
    /\ CoresPendingNow # {}


\* ---- C37
\* C37: in every state, every pending record has one vote bit per validator of the
\* current set; and no process_bitfields call returns InternalError, the result of the
\* defensive branch for a validator index outside the votes.
C37_VotesPerValidator ==
    /\ \A p \in ParaIds :
          IsSome(PendingAvailability[p]) => Len(VotesNow(p)) = Len(Validators)
    /\ Returned("process_bitfields") => call.res.kind # "InternalError"

\* The validator with the last index of the set voted, and its vote is set in a record
\* that stays pending.
C37_Witness ==
    /\ Returned("process_bitfields")
    /\ Succeeded
    /\ \E k \in 1 .. Len(Bitfields) :
          /\ Bitfields[k].validator_index = Len(Validators) - 1
          /\ \E p \in ParaIds :
                /\ StaysPending(p)
                /\ ~VotesBefore(p)[Len(Validators)]
                /\ VotesNow(p)[Len(Validators)]

\* A record was written after the validator set had changed its size.
C37_WitnessAfterChange ==
    /\ Admitted
    /\ CurrentSessionIndex = 1
    /\ Len(Validators) = 2
    /\ \E p \in ParaIds : IsSome(PendingAvailability[p]) /\ Len(VotesNow(p)) = 2


\* ---- C38
IncludedFor(p) == {i \in RemovalEvents(p) : events[i].kind = "CandidateIncluded"}
\* The vote of validator index v - 1 for para p was cast by a bitfield of the batch.
CastByBatch(p, v) ==
    \E k \in 1 .. Len(Bitfields) :
        /\ Bitfields[k].validator_index = v - 1
        /\ SignatureOk(k)
        /\ \E b \in 1 .. n_bits : Bitfields[k].payload[b] /\ LookedUp(b) = Some(p)

\* C38, call by call.  The head of a para changes only in a call that deposits a
\* CandidateIncluded event for the candidate that was pending for it, with its
\* commitments, and the new head is the head data of those commitments; such calls are
\* process_bitfields and force_enact.  collect_pending and on_new_session change no
\* head, include nothing and leave every para they remove the record of without
\* commitments, so that nothing is left to enact until process_candidates admits a
\* candidate for the para again.  A candidate enacted by process_bitfields has the
\* votes of at least availability_threshold(validators) validators; its record starts
\* without votes at admission, a vote is set only by a successful process_bitfields
\* call with a bitfield of that validator, signed for the current session, that has the
\* bit of a core looked up for the para, and on_new_session removes every record.
C38_EnactmentOnly ==
    phase = "returned" =>
        /\ \A p \in ParaIds :
              /\ Heads[p] # pre.Heads[p] =>
                    /\ call.op \in {"process_bitfields", "force_enact"}
                    /\ IncludedFor(p) # {}
                    /\ Heads[p] =
                          Some([head |-> Unwrap(pre.PendingAvailabilityCommitments[p]).head_data,
                                at |-> Unwrap(pre.PendingAvailability[p]).relay_parent_number])
              /\ \A i \in IncludedFor(p) : AboutPendingBefore(i, p)
              /\ (call.op = "process_bitfields" /\ IncludedFor(p) # {}) =>
                    /\ Succeeded
                    /\ count_ones(VotesAfter(p)) >= availability_threshold(Len(Validators))
              /\ (IsSome(PendingAvailability[p]) /\ IsNone(pre.PendingAvailability[p])) =>
                    count_ones(VotesNow(p)) = 0
              /\ StaysPending(p) =>
                    \A v \in 1 .. Len(VotesNow(p)) :
                        (VotesNow(p)[v] /\ ~VotesBefore(p)[v]) =>
                            /\ call.op = "process_bitfields"
                            /\ Succeeded
                            /\ CastByBatch(p, v)
        /\ call.op \in {"collect_pending", "on_new_session"} =>
              /\ Heads = pre.Heads
              /\ \A p \in ParaIds :
                    /\ IncludedFor(p) = {}
                    /\ RemovedByCall(p) => IsNone(PendingAvailabilityCommitments[p])
        /\ call.op = "on_new_session" =>
              \A p \in ParaIds : IsNone(PendingAvailability[p])

\* A candidate was enacted by process_bitfields with votes of earlier calls and of
\* this call together at the threshold.
C38_Witness ==
    /\ Returned("process_bitfields")
    /\ \E p \in ParaIds :
          /\ IncludedFor(p) # {}
          /\ Heads[p] # pre.Heads[p]
          /\ count_ones(VotesBefore(p)) > 0
          /\ count_ones(VotesBefore(p)) < availability_threshold(Len(Validators))

\* A candidate with votes was evicted by collect_pending: the head of its para stays.
C38_WitnessEvicted ==
    /\ Returned("collect_pending")
    /\ \E p \in ParaIds :
          /\ RemovedByCall(p)
          /\ count_ones(VotesBefore(p)) > 0
          /\ Heads[p] = pre.Heads[p]

\* A candidate with votes was wiped by on_new_session: the head of its para stays.
C38_WitnessWiped ==
    /\ Returned("on_new_session")
    /\ \E p \in ParaIds :
          /\ RemovedByCall(p)
          /\ count_ones(VotesBefore(p)) > 0
          /\ Heads[p] = pre.Heads[p]


\* ---- C39
\* The call enacted a candidate of para p that carries new validation code.
UpgradeEnacted(p) ==
    /\ IncludedFor(p) # {}
    /\ IsSome(pre.PendingAvailabilityCommitments[p])
    /\ IsSome(Unwrap(pre.PendingAvailabilityCommitments[p]).new_validation_code)

\* C39: with last_code_upgrade answering the block of the upgrade scheduled last, the
\* code upgrade of a para changes only when a candidate with new validation code is
\* enacted for it, and the upgrade scheduled then is at least
\* validation_upgrade_frequency blocks after the one scheduled before it; so any two
\* upgrades scheduled for a para are that far apart.
C39_UpgradesApart ==
    phase = "returned" =>
        \A p \in ParaIds :
            /\ CodeUpgrades[p] # pre.CodeUpgrades[p] => UpgradeEnacted(p)
            /\ UpgradeEnacted(p) =>
                  /\ call.op \in {"process_bitfields", "force_enact"}
                  /\ IsSome(CodeUpgrades[p])
                  /\ IsSome(pre.CodeUpgrades[p]) =>
                        Unwrap(CodeUpgrades[p]) - Unwrap(pre.CodeUpgrades[p])
                            >= config.validation_upgrade_frequency

\* A second upgrade was scheduled for a para by process_bitfields.
C39_Witness ==
    /\ Returned("process_bitfields")
    /\ \E p \in ParaIds :
          /\ UpgradeEnacted(p)
          /\ IsSome(pre.CodeUpgrades[p])
          /\ CodeUpgrades[p] # pre.CodeUpgrades[p]

\* A candidate with new validation code was evicted: the upgrade on record stays.
C39_WitnessEvicted ==
    /\ Returned("collect_pending")
    /\ \E p \in ParaIds :
          /\ RemovedByCall(p)
          /\ IsSome(pre.PendingAvailabilityCommitments[p])
          /\ IsSome(Unwrap(pre.PendingAvailabilityCommitments[p]).new_validation_code)
          /\ IsSome(CodeUpgrades[p])


\* ---- C40
\* C40: for every validator-set size n, availability_threshold(n) is at most n, three
\* times it is at least 2 * n, n minus it is at most floor(n/3), and it is at least 1
\* when n is; and with a validator set that is not empty, a candidate enacted by
\* process_bitfields has at least one vote.
C40_ThresholdBounds ==
    /\ \A n \in ThresholdSizes :
          /\ availability_threshold(n) <= n
          /\ 3 * availability_threshold(n) >= 2 * n
          /\ n - availability_threshold(n) <= FloorOfThird(n)
          /\ n >= 1 => availability_threshold(n) >= 1
    /\ (Returned("process_bitfields") /\ Len(Validators) >= 1) =>
          \A p \in ParaIds :
              /\ IncludedFor(p) # {} => count_ones(VotesAfter(p)) >= 1
              /\ (IsSome(pre.PendingAvailability[p]) /\ Succeeded
                    /\ count_ones(VotesAfter(p)) = 0)
                 => (IncludedFor(p) = {} /\ Heads[p] = pre.Heads[p])

\* A successful process_bitfields call named a candidate without votes and cast none
\* for it: the candidate stays pending.
C40_Witness ==
    /\ Returned("process_bitfields")
    /\ Succeeded
    /\ Len(Validators) >= 1
    /\ Len(Bitfields) > 0
    /\ \E p \in ParaIds :
          /\ StaysPending(p)
          /\ Named(p)
          /\ count_ones(VotesAfter(p)) = 0

\* With two validators the threshold is two: a candidate was enacted by the votes of both.
C40_WitnessAllVote ==
    /\ Returned("process_bitfields")
    /\ Len(Validators) = 2
    /\ \E p \in ParaIds : IncludedFor(p) # {} /\ count_ones(VotesAfter(p)) = 2


====
